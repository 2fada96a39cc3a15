--------------------------- MODULE MigrateProofs ---------------------------
(***************************************************************************)
(* The migrations' promises, for every number of command lines and every    *)
(* project.  The invariant is stated of one run and the files: a run that    *)
(* is past its check of a file finds there what it planned from, or knows    *)
(* (moved) that somebody changed it.  It is kept by the run's own steps, and *)
(* by whatever anyone else does to the files.                                *)
(***************************************************************************)
EXTENDS Migrate, TLAPS

Planning == {"planned", "checking", "writing"}

\* What release 4's planner holds once its plan is made: a declaration that is
\* complete and left alone, or one of release 3 and its translation.
Plan4(before, after) ==
  /\ before \in Declarations /\ after \in Declarations
  /\ \/ before = after /\ before.fields = "all"
     \/ /\ before.fields = "v3" /\ after.fields = "all" /\ after.roots \in SafeRoots
        /\ after.doxygen = before.doxygen /\ after.other = before.other

Plan5(before, after) ==
  before \in Declarations /\ ~Blocked5(before) /\ after = Migrated5(before)

PlanInv(r) ==
  /\ r.at \in {"reading", "inferring"} => r.after = r.before
  /\ r.at = "inferring" => r.tool = "v4" /\ r.before["pyproject"] \in Declarations
  /\ r.at = "artifacts" => r.tool = "v5" /\ r.todo \subseteq Artifacts
  /\ r.at \in Planning /\ r.tool = "v4" => Plan4(r.before["pyproject"], r.after["pyproject"])
  /\ r.at \in Planning \union {"artifacts"} /\ r.tool = "v5" =>
       /\ Plan5(r.before["pyproject"], r.after["pyproject"])
       /\ \A a \in Artifacts : (r.at = "artifacts" => a \notin r.todo) =>
            r.after[a] = Planned(r.before[a], r.before["pyproject"].roots)

\* What a checked file holds: what the plan was made from until the run has
\* replaced it, what the plan says from then on.
Holds(r, f, content) ==
  IF r.at = "writing" /\ f \notin r.todo THEN content = r.after[f] ELSE content = r.before[f]

GuardInv(r, files) ==
  /\ r.at \in {"checking", "writing"} => r.todo \subseteq Guarded(r.tool)
  /\ r.at = "writing" => \A f \in r.todo : r.before[f] # r.after[f]
  /\ \A f \in Checked(r) : f \in r.moved \/ Holds(r, f, files[f])

HistoryInv(r, files) ==
  /\ r.at \notin {"writing", "done", "idle"} => r.wrote = {}
  /\ r.steady => r.moved = {}
  /\ r.at = "done" /\ r.steady => Complete(r.tool, files)

RunInv(r, files) == RunType(r) /\ PlanInv(r) /\ GuardInv(r, files) /\ HistoryInv(r, files)

SharedInv ==
  /\ disk \in [Files -> Values] /\ WellPlaced(disk) /\ disk["pyproject"] \in Declarations
  /\ tree \in Trees /\ edits \in 0 .. MaxEdits

IInv == SharedInv /\ run \in [Runs -> RunRecords] /\ \A p \in Runs : RunInv(run[p], disk)

-----------------------------------------------------------------------------
(* A run on its own.                                                        *)

\* A run that holds nothing is typed.
LEMMA FreshTyped == Fresh \in RunRecords /\ Nothing \in [Files -> Values] /\ WellPlaced(Nothing)
<1>1. Nothing \in [Files -> Values] /\ WellPlaced(Nothing)
  BY DEF Nothing, Values, WellPlaced, Files, Artifacts
<1> QED
  BY <1>1 DEF Fresh, RunRecords, Phases, Ended

\* However a run ends, the invariant asks only that it wrote nothing unless it
\* was killed or done, and that it completed its release if it says so.
LEMMA FinishedInv ==
  ASSUME NEW r \in RunRecords, NEW how \in Ended, NEW files,
         how \notin {"done", "idle"} => r.wrote = {},
         how = "done" /\ r.steady => Complete(r.tool, files)
  PROVE  RunInv(Finished(r, how), files)
<1> DEFINE e == Finished(r, how)
<1>1. e \in RunRecords /\ e.tool = r.tool /\ e.at = how /\ e.todo = {} /\ e.before = Nothing
      /\ e.after = Nothing /\ e.moved = {} /\ e.wrote = r.wrote /\ e.steady = r.steady
  BY FreshTyped DEF Finished, Fresh, RunRecords, Phases
<1> HIDE DEF e
<1>2. RunType(e)
  BY <1>1, FreshTyped DEF RunType, Ended
<1>3. PlanInv(e) /\ Checked(e) = {}
  BY <1>1 DEF PlanInv, Planning, Checked, Ended
<1>4. GuardInv(e, files) /\ HistoryInv(e, files)
  BY <1>1, <1>3 DEF GuardInv, HistoryInv, Ended
<1> QED
  BY <1>2, <1>3, <1>4 DEF RunInv, e

\* Whatever somebody else does to one file, a run's invariant survives, because
\* the run has not checked that file yet or counts it as moved.
LEMMA SeeingInv ==
  ASSUME NEW r, NEW files, NEW other, NEW f \in Files, RunInv(r, files),
         \A g \in Files \ {f} : other[g] = files[g]
  PROVE  RunInv(Seeing(r, f), other)
<1> DEFINE e == Seeing(r, f)
<1>0. r \in RunRecords
  BY DEF RunInv, RunType
<1>1. Checked(r) \subseteq Files
  BY <1>0 DEF Checked, Guarded, Files
<1>2. e \in RunRecords /\ e.tool = r.tool /\ e.at = r.at /\ e.todo = r.todo /\ e.before = r.before
      /\ e.after = r.after /\ e.moved = r.moved \union ({f} \intersect Checked(r))
      /\ e.wrote = r.wrote /\ e.steady = FALSE
  BY <1>0, <1>1 DEF Seeing, RunRecords
<1> HIDE DEF e
<1>3. RunType(e) /\ PlanInv(e)
  BY <1>2 DEF RunInv, RunType, PlanInv
<1>4. Checked(e) = Checked(r) /\ \A g \in Files : Holds(e, g, other[g]) <=> Holds(r, g, other[g])
  BY <1>2 DEF Checked, Holds
<1>5. ASSUME NEW g \in Checked(e) PROVE g \in e.moved \/ Holds(e, g, other[g])
  <2>1. g \in r.moved \/ Holds(r, g, files[g])
    BY <1>4, <1>5 DEF RunInv, GuardInv
  <2> QED
    BY <1>1, <1>2, <1>4, <1>5, <2>1
<1>6. GuardInv(e, other) /\ HistoryInv(e, other)
  BY <1>2, <1>5 DEF RunInv, GuardInv, HistoryInv
<1> QED
  BY <1>3, <1>6 DEF RunInv, e

-----------------------------------------------------------------------------
(* A run's own steps, which change nothing but the run unless it publishes.  *)

\* A run that neither checks nor writes relies on no file.
LEMMA Unguarded ==
  ASSUME NEW r, NEW files, r.at \notin {"checking", "writing"}
  PROVE  GuardInv(r, files)
BY DEF GuardInv, Checked

\* What a step that only changes run p has to show.
LEMMA OwnStep ==
  ASSUME IInv, NEW p \in Runs, NEW r2, run' = [run EXCEPT ![p] = r2], RunInv(r2, disk),
         UNCHANGED <<disk, tree, edits>>
  PROVE  IInv'
<1>1. r2 \in RunRecords
  BY DEF RunInv, RunType
<1>2. run' \in [Runs -> RunRecords] /\ run'[p] = r2 /\ \A q \in Runs \ {p} : run'[q] = run[q]
  BY <1>1 DEF IInv
<1>3. ASSUME NEW q \in Runs PROVE RunInv(run'[q], disk)
  BY <1>2 DEF IInv
<1>4. SharedInv'
  BY DEF IInv, SharedInv, WellPlaced
<1> QED
  BY <1>2, <1>3, <1>4 DEF IInv

\* What the invariant says of one run.
LEMMA OneRun ==
  ASSUME IInv, NEW p \in Runs
  PROVE  /\ run[p] \in RunRecords /\ RunType(run[p]) /\ PlanInv(run[p])
         /\ GuardInv(run[p], disk) /\ HistoryInv(run[p], disk)
         /\ run[p].at \notin {"writing", "done", "idle"} => run[p].wrote = {}
BY DEF IInv, RunInv, HistoryInv

LEMMA StartKeeps == ASSUME IInv, NEW p \in Runs, Start(p) PROVE IInv'
<1>1. PICK tool \in {"v4", "v5"} :
        run' = [run EXCEPT ![p] = [Fresh EXCEPT !.tool = tool, !.at = "reading", !.steady = TRUE]]
  BY DEF Start
<1> DEFINE e == [Fresh EXCEPT !.tool = tool, !.at = "reading", !.steady = TRUE]
<1>2. e \in RunRecords /\ e.at = "reading" /\ e.todo = {} /\ e.before = Nothing /\ e.after = Nothing
      /\ e.moved = {} /\ e.wrote = {}
  BY FreshTyped DEF Fresh, RunRecords, Phases
<1>3. run' = [run EXCEPT ![p] = e]
  BY <1>1
<1> HIDE DEF e
<1>4. RunType(e) /\ PlanInv(e) /\ GuardInv(e, disk) /\ HistoryInv(e, disk)
  BY <1>2, FreshTyped, Unguarded DEF RunType, PlanInv, Planning, HistoryInv
<1> QED
  BY <1>3, <1>4, OwnStep DEF RunInv, Start

\* Previewing, and dying anywhere, end a run that changed nothing it has to answer for.
LEMMA EndKeeps == ASSUME IInv, NEW p \in Runs, Preview(p) \/ Die(p) PROVE IInv'
<1>1. CASE Preview(p)
  <2>1. RunInv(Finished(run[p], "previewed"), disk)
    BY <1>1, OneRun, FinishedInv DEF Preview, Ended
  <2> QED
    BY <1>1, <2>1, OwnStep DEF Preview
<1>2. CASE Die(p)
  <2>1. RunInv(Finished(run[p], "idle"), disk)
    BY <1>2, OneRun, FinishedInv DEF Ended
  <2> QED
    BY <1>2, <2>1, OwnStep DEF Die
<1> QED
  BY <1>1, <1>2

\* The planners: what they read is what they plan from.
LEMMA CapturingTyped ==
  ASSUME NEW r \in RunRecords, NEW f \in Files, NEW content \in Values, NEW desired \in Values
  PROVE  LET c == Capturing(r, f, content, desired)
         IN /\ c \in RunRecords
            /\ c.tool = r.tool /\ c.at = r.at /\ c.todo = r.todo /\ c.moved = r.moved /\ c.wrote = r.wrote
            /\ c.steady = r.steady /\ c.before[f] = content /\ c.after[f] = desired
            /\ \A g \in Files \ {f} : c.before[g] = r.before[g] /\ c.after[g] = r.after[g]
<1> DEFINE c == Capturing(r, f, content, desired)
<1>1. c.tool = r.tool /\ c.at = r.at /\ c.todo = r.todo /\ c.moved = r.moved /\ c.wrote = r.wrote
      /\ c.steady = r.steady /\ c.before = [r.before EXCEPT ![f] = content]
      /\ c.after = [r.after EXCEPT ![f] = desired]
  BY DEF Capturing, RunRecords
<1>2. c \in RunRecords
  BY DEF Capturing, RunRecords
<1> HIDE DEF c
<1>3. c.before[f] = content /\ c.after[f] = desired
      /\ \A g \in Files \ {f} : c.before[g] = r.before[g] /\ c.after[g] = r.after[g]
  BY <1>1 DEF RunRecords
<1> QED
  BY <1>1, <1>2, <1>3 DEF c

LEMMA Plan4Keeps == ASSUME IInv, NEW p \in Runs, ReadProject4(p) PROVE IInv'
<1> DEFINE r == run[p]
           d == disk["pyproject"]
           c == Capturing(r, "pyproject", d, d)
           e == [c EXCEPT !.at = IF d.fields = "all" THEN "planned" ELSE "inferring"]
<1>1. r \in RunRecords /\ RunType(r) /\ PlanInv(r) /\ HistoryInv(r, disk) /\ r.wrote = {}
      /\ r.at = "reading" /\ r.tool = "v4" /\ run' = [run EXCEPT ![p] = e]
  BY OneRun DEF ReadProject4
<1>2. d \in Declarations
  BY DEF IInv, SharedInv
<1>3. /\ c \in RunRecords
      /\ c.tool = "v4" /\ c.todo = r.todo /\ c.moved = r.moved /\ c.wrote = {} /\ c.steady = r.steady
      /\ c.before["pyproject"] = d /\ c.after["pyproject"] = d
      /\ \A a \in Artifacts : c.before[a] = r.before[a] /\ c.after[a] = r.after[a]
  BY <1>1, <1>2, CapturingTyped DEF Values, Files, Artifacts
<1> HIDE DEF c
<1>4. /\ e \in RunRecords
      /\ e.tool = "v4" /\ e.todo = r.todo /\ e.moved = r.moved /\ e.wrote = {} /\ e.steady = r.steady
      /\ e.before = c.before /\ e.after = c.after
      /\ e.at \in {"planned", "inferring"} /\ (e.at = "planned" => d.fields = "all")
  BY <1>3 DEF RunRecords, Phases
<1> HIDE DEF e
<1>5. e.before = e.after /\ WellPlaced(e.before)
  <2>1. r.before = r.after /\ WellPlaced(r.before)
    BY <1>1 DEF PlanInv, RunType
  <2>2. \A f \in Files : c.before[f] = c.after[f]
    BY <1>3, <2>1 DEF Files
  <2>3. c.before = c.after
    BY <1>3, <2>2 DEF RunRecords
  <2> QED
    BY <1>2, <1>3, <1>4, <2>1, <2>3 DEF WellPlaced
<1>6. RunType(e) /\ PlanInv(e)
  BY <1>2, <1>3, <1>4, <1>5 DEF RunType, PlanInv, Plan4, Planning
<1>7. GuardInv(e, disk) /\ HistoryInv(e, disk)
  BY <1>1, <1>4, Unguarded DEF HistoryInv
<1> QED
  BY <1>1, <1>6, <1>7, OwnStep DEF RunInv, ReadProject4

\* What release 4's migration makes of a declaration of release 3.
LEMMA Migrated4Plan ==
  ASSUME NEW d \in Declarations, NEW t, NEW given, ~Blocked4(d, t, given)
  PROVE  Plan4(d, Migrated4(d, t))
<1>1. d.fields = "v3" /\ DerivedRoots(d, t) \in SafeRoots /\ DerivedRoots(d, t) \in Roots
  BY RootsAssumption DEF Blocked4
<1>2. Migrated4(d, t) \in Declarations /\ Migrated4(d, t).fields = "all"
      /\ Migrated4(d, t).roots = DerivedRoots(d, t) /\ Migrated4(d, t).doxygen = d.doxygen
      /\ Migrated4(d, t).other = d.other
  BY <1>1 DEF Migrated4, Declarations, FieldStages
<1> QED
  BY <1>1, <1>2 DEF Plan4

LEMMA InferKeeps == ASSUME IInv, NEW p \in Runs, InferRoles4(p) PROVE IInv'
<1> DEFINE r == run[p]
           d == r.before["pyproject"]
           c == Capturing(r, "pyproject", d, Migrated4(d, tree))
           e == [c EXCEPT !.at = "planned"]
<1>1. PICK given \in BOOLEAN : run' = [run EXCEPT ![p] = IF Blocked4(d, tree, given) THEN Finished(r, "blocked") ELSE e]
  BY DEF InferRoles4
<1>2. r \in RunRecords /\ RunType(r) /\ PlanInv(r) /\ HistoryInv(r, disk) /\ r.wrote = {}
      /\ r.at = "inferring" /\ r.tool = "v4" /\ d \in Declarations
  BY OneRun DEF InferRoles4, PlanInv
<1>3. CASE Blocked4(d, tree, given)
  <2>1. RunInv(Finished(r, "blocked"), disk)
    BY <1>2, FinishedInv DEF Ended
  <2>2. run' = [run EXCEPT ![p] = Finished(r, "blocked")]
    BY <1>1, <1>3
  <2> QED
    BY <2>1, <2>2, OwnStep DEF InferRoles4
<1>4. CASE ~Blocked4(d, tree, given)
  <2>1. Plan4(d, Migrated4(d, tree))
    BY <1>2, <1>4, Migrated4Plan
  <2>2. /\ c \in RunRecords
        /\ c.tool = "v4" /\ c.todo = r.todo /\ c.moved = r.moved /\ c.wrote = {} /\ c.steady = r.steady
        /\ c.before["pyproject"] = d /\ c.after["pyproject"] = Migrated4(d, tree)
        /\ \A a \in Artifacts : c.before[a] = r.before[a] /\ c.after[a] = r.after[a]
    <3>1. d \in Values /\ Migrated4(d, tree) \in Values
      BY <1>2, <2>1 DEF Values, Plan4
    <3>2. "pyproject" \in Files /\ Artifacts = Files \ {"pyproject"}
      BY DEF Files, Artifacts
    <3> QED
      BY <1>2, <3>1, <3>2, CapturingTyped
  <2>3. run' = [run EXCEPT ![p] = e]
    BY <1>1, <1>4
  <2> HIDE DEF c
  <2>4. /\ e \in RunRecords
        /\ e.tool = "v4" /\ e.todo = r.todo /\ e.moved = r.moved /\ e.wrote = {} /\ e.steady = r.steady
        /\ e.before = c.before /\ e.after = c.after /\ e.at = "planned"
    BY <2>2 DEF RunRecords, Phases
  <2> HIDE DEF e
  <2>5. RunType(e)
    BY <1>2, <2>1, <2>2, <2>4 DEF RunType, WellPlaced, Plan4
  <2>6. PlanInv(e) /\ GuardInv(e, disk) /\ HistoryInv(e, disk)
    BY <1>2, <2>1, <2>2, <2>4, Unguarded DEF PlanInv, Planning, HistoryInv
  <2> QED
    BY <2>3, <2>5, <2>6, OwnStep DEF RunInv, InferRoles4
<1> QED
  BY <1>3, <1>4

LEMMA Plan5Keeps == ASSUME IInv, NEW p \in Runs, ReadProject5(p) PROVE IInv'
<1> DEFINE r == run[p]
           d == disk["pyproject"]
           c == Capturing(r, "pyproject", d, Migrated5(d))
           e == [c EXCEPT !.todo = Artifacts, !.at = "artifacts"]
<1>1. run' = [run EXCEPT ![p] = IF Blocked5(d) THEN Finished(r, "blocked") ELSE e]
  BY DEF ReadProject5
<1>2. r \in RunRecords /\ RunType(r) /\ PlanInv(r) /\ HistoryInv(r, disk) /\ r.wrote = {}
      /\ r.at = "reading" /\ r.tool = "v5" /\ d \in Declarations
  BY OneRun DEF ReadProject5, IInv, SharedInv
<1>3. CASE Blocked5(d)
  <2>1. RunInv(Finished(r, "blocked"), disk)
    BY <1>2, FinishedInv DEF Ended
  <2>2. run' = [run EXCEPT ![p] = Finished(r, "blocked")]
    BY <1>1, <1>3
  <2> QED
    BY <2>1, <2>2, OwnStep DEF ReadProject5
<1>4. CASE ~Blocked5(d)
  <2>1. Migrated5(d) \in Declarations /\ Migrated5(d).roots \in SafeRoots
    BY <1>2, <1>4 DEF Migrated5, Declarations, Blocked5
  <2>2. /\ c \in RunRecords
        /\ c.tool = "v5" /\ c.moved = r.moved /\ c.wrote = {} /\ c.steady = r.steady
        /\ c.before["pyproject"] = d /\ c.after["pyproject"] = Migrated5(d)
        /\ \A a \in Artifacts : c.before[a] = r.before[a] /\ c.after[a] = r.after[a]
    <3>1. d \in Values /\ Migrated5(d) \in Values
      BY <1>2, <2>1 DEF Values
    <3>2. "pyproject" \in Files /\ Artifacts = Files \ {"pyproject"}
      BY DEF Files, Artifacts
    <3> QED
      BY <1>2, <3>1, <3>2, CapturingTyped
  <2>3. run' = [run EXCEPT ![p] = e]
    BY <1>1, <1>4
  <2> HIDE DEF c
  <2>4. /\ e \in RunRecords
        /\ e.tool = "v5" /\ e.todo = Artifacts /\ e.moved = r.moved /\ e.wrote = {} /\ e.steady = r.steady
        /\ e.before = c.before /\ e.after = c.after /\ e.at = "artifacts"
    BY <2>2 DEF RunRecords, Phases, Files
  <2> HIDE DEF e
  <2>5. RunType(e)
    BY <1>2, <2>1, <2>2, <2>4 DEF RunType, WellPlaced, Artifacts
  <2>6. PlanInv(e) /\ GuardInv(e, disk) /\ HistoryInv(e, disk)
    BY <1>2, <1>4, <2>2, <2>4, Unguarded DEF PlanInv, Plan5, Planning, HistoryInv
  <2> QED
    BY <2>3, <2>5, <2>6, OwnStep DEF RunInv, ReadProject5
<1> QED
  BY <1>3, <1>4

LEMMA ArtifactKeeps == ASSUME IInv, NEW p \in Runs, ReadArtifact(p) PROVE IInv'
<1> DEFINE r == run[p]
           roots == r.before["pyproject"].roots
<1>1. PICK a \in Artifacts :
        /\ First(a, r.todo, ReadOrder)
        /\ run' = [run EXCEPT ![p] = [Capturing(r, a, disk[a], Planned(disk[a], roots)) EXCEPT
                         !.todo = r.todo \ {a}, !.at = IF r.todo \ {a} = {} THEN "planned" ELSE "artifacts"]]
  BY DEF ReadArtifact
<1> DEFINE c == Capturing(r, a, disk[a], Planned(disk[a], roots))
           e == [c EXCEPT !.todo = r.todo \ {a}, !.at = IF r.todo \ {a} = {} THEN "planned" ELSE "artifacts"]
<1>2. r \in RunRecords /\ RunType(r) /\ PlanInv(r) /\ HistoryInv(r, disk) /\ r.wrote = {}
      /\ r.at = "artifacts" /\ r.tool = "v5" /\ r.todo \subseteq Artifacts
      /\ Plan5(r.before["pyproject"], r.after["pyproject"])
  BY OneRun DEF ReadArtifact, PlanInv
<1>3. disk[a] \in Contents \union {None} /\ Planned(disk[a], roots) \in Contents
  <2>1. roots \in Roots
    BY <1>2, RootsAssumption DEF Plan5, Blocked5
  <2> QED
    BY <2>1 DEF IInv, SharedInv, WellPlaced, Planned, Contents
<1>4. run' = [run EXCEPT ![p] = e]
  BY <1>1
<1>5. /\ c \in RunRecords
      /\ c.tool = "v5" /\ c.moved = r.moved /\ c.wrote = {} /\ c.steady = r.steady
      /\ c.before[a] = disk[a] /\ c.after[a] = Planned(disk[a], roots)
      /\ \A f \in Files \ {a} : c.before[f] = r.before[f] /\ c.after[f] = r.after[f]
  <2>1. a \in Files /\ disk[a] \in Values /\ Planned(disk[a], roots) \in Values
    BY <1>3 DEF Values, Files
  <2> QED
    BY <1>2, <2>1, CapturingTyped
<1> HIDE DEF c
<1>6. /\ e \in RunRecords
      /\ e.tool = "v5" /\ e.todo = r.todo \ {a} /\ e.moved = r.moved /\ e.wrote = {} /\ e.steady = r.steady
      /\ e.before = c.before /\ e.after = c.after
      /\ e.at = IF r.todo \ {a} = {} THEN "planned" ELSE "artifacts"
  BY <1>2, <1>5 DEF RunRecords, Phases
<1> HIDE DEF e
<1>7. /\ e.before[a] = disk[a] /\ e.after[a] = Planned(disk[a], roots)
      /\ \A f \in Files \ {a} : e.before[f] = r.before[f] /\ e.after[f] = r.after[f]
  BY <1>5, <1>6
<1>8. e.before["pyproject"] = r.before["pyproject"] /\ e.after["pyproject"] = r.after["pyproject"]
  BY <1>7 DEF Files, Artifacts
<1>9. RunType(e)
  <2>1. WellPlaced(e.before) /\ WellPlaced(e.after)
    BY <1>2, <1>3, <1>7, <1>8 DEF RunType, WellPlaced, Files
  <2> QED
    BY <1>2, <1>6, <1>8, <2>1 DEF RunType
<1>10. PlanInv(e)
  <2>1. ASSUME NEW b \in Artifacts, e.at = "artifacts" => b \notin e.todo
        PROVE  e.after[b] = Planned(e.before[b], roots)
    BY <1>2, <1>6, <1>7, <2>1 DEF PlanInv, Files
  <2> QED
    BY <1>2, <1>6, <1>8, <2>1 DEF PlanInv, Planning
<1>11. GuardInv(e, disk) /\ HistoryInv(e, disk)
  BY <1>2, <1>6, Unguarded DEF HistoryInv
<1> QED
  BY <1>4, <1>9, <1>10, <1>11, OwnStep DEF RunInv, ReadArtifact

LEMMA BeginKeeps == ASSUME IInv, NEW p \in Runs, BeginApply(p) PROVE IInv'
<1> DEFINE r == run[p]
           e == [r EXCEPT !.todo = Guarded(r.tool), !.at = "checking"]
<1>1. run' = [run EXCEPT ![p] = e]
  BY DEF BeginApply
<1>2. r \in RunRecords /\ RunType(r) /\ PlanInv(r) /\ HistoryInv(r, disk) /\ r.wrote = {} /\ r.at = "planned"
  BY OneRun DEF BeginApply
<1>3. e.tool = r.tool /\ e.todo = Guarded(r.tool) /\ e.moved = r.moved /\ e.wrote = r.wrote
      /\ e.steady = r.steady /\ e.before = r.before /\ e.after = r.after /\ e.at = "checking"
  BY <1>2 DEF RunRecords
<1>4. Guarded(r.tool) \subseteq Files /\ Guarded(r.tool) # {}
  BY DEF Guarded, Files
<1>5. e \in RunRecords
  BY <1>2, <1>4 DEF RunRecords, Phases
<1> HIDE DEF e
<1>6. RunType(e) /\ PlanInv(e)
  BY <1>2, <1>3, <1>4, <1>5 DEF RunType, PlanInv, Planning
<1>7. GuardInv(e, disk) /\ HistoryInv(e, disk)
  BY <1>2, <1>3 DEF GuardInv, Checked, HistoryInv
<1> QED
  BY <1>1, <1>6, <1>7, OwnStep DEF RunInv, BeginApply

-----------------------------------------------------------------------------
(* Checking and publishing.                                                 *)

\* A plan that changes no file is a plan for a project that needs nothing.
LEMMA NothingToDo ==
  ASSUME NEW r \in RunRecords, NEW files, PlanInv(r), r.at \in Planning,
         \A f \in Guarded(r.tool) : r.before[f] = r.after[f] /\ files[f] = r.before[f]
  PROVE  Complete(r.tool, files)
<1>1. CASE r.tool = "v4"
  BY <1>1 DEF PlanInv, Plan4, Guarded, Complete
<1>2. CASE r.tool = "v5"
  <2>1. files["pyproject"] = r.before["pyproject"] /\ r.after["pyproject"] = r.before["pyproject"]
        /\ \A a \in Artifacts : files[a] = r.before[a] /\ r.after[a] = r.before[a]
    BY <1>2 DEF Guarded, Files
  <2>2. Plan5(r.before["pyproject"], r.after["pyproject"])
        /\ \A a \in Artifacts : r.after[a] = Planned(r.before[a], r.before["pyproject"].roots)
    BY <1>2 DEF PlanInv, Planning
  <2> QED
    BY <1>2, <2>1, <2>2 DEF Complete, Plan5
<1> QED
  BY <1>1, <1>2 DEF RunRecords

\* Once every guarded file is what the plan says, the project is at the release.
LEMMA AllPublished ==
  ASSUME NEW r \in RunRecords, NEW files, PlanInv(r), r.at \in Planning,
         \A f \in Guarded(r.tool) : files[f] = r.after[f]
  PROVE  Complete(r.tool, files)
<1>1. CASE r.tool = "v4"
  BY <1>1 DEF PlanInv, Plan4, Guarded, Complete
<1>2. CASE r.tool = "v5"
  <2> DEFINE b == r.before["pyproject"]
             d == r.after["pyproject"]
  <2>1. files["pyproject"] = d /\ \A a \in Artifacts : files[a] = r.after[a]
    BY <1>2 DEF Guarded, Files
  <2>2. Plan5(b, d) /\ \A a \in Artifacts : r.after[a] = Planned(r.before[a], b.roots)
    BY <1>2 DEF PlanInv, Planning
  <2>3. b \in Declarations /\ ~Blocked5(b) /\ d = [b EXCEPT !.doxygen = TRUE] /\ b.roots \in Roots
    BY <2>2, RootsAssumption DEF Plan5, Migrated5, Blocked5
  <2>4. d.fields = b.fields /\ d.roots = b.roots /\ Migrated5(d) = d
    BY <2>3 DEF Declarations, Migrated5
  <2>5. ~Blocked5(d)
    BY <2>3, <2>4 DEF Blocked5
  <2>6. ASSUME NEW a \in Artifacts PROVE Planned(r.after[a], d.roots) = r.after[a]
    <3>1. Generated(b.roots) # None
      BY <2>3, NoneAssumption DEF Contents
    <3> QED
      BY <2>2, <2>4, <3>1 DEF Planned
  <2> QED
    BY <1>2, <2>1, <2>4, <2>5, <2>6 DEF Complete
<1> QED
  BY <1>1, <1>2 DEF RunRecords

LEMMA CheckKeeps == ASSUME IInv, NEW p \in Runs, NEW f \in Files, Check(p, f) PROVE IInv'
<1> DEFINE r == run[p]
           rest == r.todo \ {f}
           due == {g \in Guarded(r.tool) : r.before[g] # r.after[g]}
           e == [r EXCEPT !.todo = rest]
           w == [r EXCEPT !.todo = due, !.at = "writing"]
<1>1. r \in RunRecords /\ RunType(r) /\ PlanInv(r) /\ GuardInv(r, disk) /\ HistoryInv(r, disk)
      /\ r.wrote = {} /\ r.at = "checking" /\ f \in r.todo /\ r.todo \subseteq Guarded(r.tool)
  BY OneRun DEF Check, First, GuardInv
<1>2. run' = [run EXCEPT ![p] = IF disk[f] # r.before[f] THEN Finished(r, "refused")
                                ELSE IF rest # {} THEN e
                                ELSE IF due = {} THEN Finished(r, "done") ELSE w]
  BY DEF Check
<1>3. Guarded(r.tool) \subseteq Files
  BY DEF Guarded, Files
<1>4. \A g \in Guarded(r.tool) \ r.todo : g \in r.moved \/ disk[g] = r.before[g]
  BY <1>1 DEF GuardInv, Checked, Holds
<1>5. CASE disk[f] # r.before[f]
  <2>1. RunInv(Finished(r, "refused"), disk)
    BY <1>1, FinishedInv DEF Ended
  <2> QED
    BY <1>2, <1>5, <2>1, OwnStep DEF Check
<1>6. CASE disk[f] = r.before[f] /\ rest # {}
  <2>1. run' = [run EXCEPT ![p] = e]
    BY <1>2, <1>6
  <2>2. /\ e \in RunRecords
        /\ e.tool = r.tool /\ e.at = "checking" /\ e.todo = rest /\ e.moved = r.moved /\ e.wrote = {}
        /\ e.steady = r.steady /\ e.before = r.before /\ e.after = r.after
    BY <1>1 DEF RunRecords
  <2> HIDE DEF e
  <2>3. RunType(e) /\ PlanInv(e) /\ HistoryInv(e, disk)
    BY <1>1, <1>6, <2>2 DEF RunType, PlanInv, Planning, HistoryInv
  <2>4. \A g \in Checked(e) : g \in e.moved \/ Holds(e, g, disk[g])
    BY <1>4, <1>6, <2>2 DEF Checked, Holds
  <2>5. GuardInv(e, disk)
    BY <1>1, <2>2, <2>4 DEF GuardInv
  <2> QED
    BY <2>1, <2>3, <2>5, OwnStep DEF RunInv, Check
<1>7. CASE disk[f] = r.before[f] /\ rest = {} /\ due = {}
  <2>1. r.steady => Complete(r.tool, disk)
    <3>1. ASSUME r.steady, NEW g \in Guarded(r.tool) PROVE r.before[g] = r.after[g] /\ disk[g] = r.before[g]
      BY <1>1, <1>4, <1>7, <3>1 DEF HistoryInv
    <3> QED
      BY <1>1, <3>1, NothingToDo DEF Planning
  <2>2. RunInv(Finished(r, "done"), disk)
    BY <1>1, <2>1, FinishedInv DEF Ended
  <2> QED
    BY <1>2, <1>7, <2>2, OwnStep DEF Check
<1>8. CASE disk[f] = r.before[f] /\ rest = {} /\ due # {}
  <2>1. run' = [run EXCEPT ![p] = w]
    BY <1>2, <1>8
  <2>2. /\ w \in RunRecords
        /\ w.tool = r.tool /\ w.at = "writing" /\ w.todo = due /\ w.moved = r.moved /\ w.wrote = {}
        /\ w.steady = r.steady /\ w.before = r.before /\ w.after = r.after
    BY <1>1, <1>3 DEF RunRecords, Phases
  <2>3. due \subseteq Guarded(r.tool) /\ \A g \in Guarded(r.tool) : g \in due <=> r.before[g] # r.after[g]
    OBVIOUS
  <2> HIDE DEF w, due
  <2>4. RunType(w) /\ PlanInv(w) /\ HistoryInv(w, disk)
    BY <1>1, <1>8, <2>2 DEF RunType, PlanInv, Planning, HistoryInv
  <2>5. \A g \in Checked(w) : g \in w.moved \/ Holds(w, g, disk[g])
    BY <1>4, <1>8, <2>2, <2>3 DEF Checked, Holds
  <2>6. GuardInv(w, disk)
    BY <2>2, <2>3, <2>5 DEF GuardInv
  <2> QED
    BY <2>1, <2>4, <2>6, OwnStep DEF RunInv, Check
<1> QED
  BY <1>5, <1>6, <1>7, <1>8

\* What a run about to replace file f knows of it: it is one of the files it
\* guards, and holds what the plan was made from unless somebody changed it.
LEMMA AboutToPublish ==
  ASSUME IInv, NEW p \in Runs, NEW f \in Files, Publish(p, f)
  PROVE  /\ f \in Guarded(run[p].tool) /\ f \in run[p].todo /\ disk' = [disk EXCEPT ![f] = run[p].after[f]]
         /\ disk'[f] = run[p].after[f] /\ \A g \in Files \ {f} : disk'[g] = disk[g]
         /\ run[p].before[f] # run[p].after[f]
         /\ f \in run[p].moved \/ disk[f] = run[p].before[f]
         /\ run[p].at = "writing"
<1>1. run[p].at = "writing" /\ f \in run[p].todo /\ disk' = [disk EXCEPT ![f] = run[p].after[f]]
  BY DEF Publish, First
<1>2. GuardInv(run[p], disk) /\ disk \in [Files -> Values]
  BY OneRun DEF IInv, SharedInv
<1>3. f \in Guarded(run[p].tool) /\ run[p].before[f] # run[p].after[f]
      /\ (f \in run[p].moved \/ disk[f] = run[p].before[f])
  BY <1>1, <1>2 DEF GuardInv, Checked, Holds
<1> QED
  BY <1>1, <1>2, <1>3

LEMMA PublishKeeps == ASSUME IInv, NEW p \in Runs, NEW f \in Files, Publish(p, f) PROVE IInv'
<1> DEFINE r == run[p]
           rest == r.todo \ {f}
           e == [r EXCEPT !.todo = rest, !.wrote = @ \union {f}]
           new == IF rest = {} THEN Finished(e, "done") ELSE e
<1>1. r \in RunRecords /\ RunType(r) /\ PlanInv(r) /\ GuardInv(r, disk) /\ HistoryInv(r, disk)
      /\ r.at = "writing" /\ f \in r.todo /\ r.todo \subseteq Guarded(r.tool)
  BY OneRun, AboutToPublish DEF GuardInv
<1>2. disk' = [disk EXCEPT ![f] = r.after[f]] /\ disk'[f] = r.after[f]
      /\ \A g \in Files \ {f} : disk'[g] = disk[g]
  BY AboutToPublish
<1>3. run' = [OthersSee(p, f) EXCEPT ![p] = new] /\ tree' = tree /\ edits' = edits
  BY DEF Publish
<1>4. /\ e \in RunRecords
      /\ e.tool = r.tool /\ e.at = "writing" /\ e.todo = rest /\ e.moved = r.moved
      /\ e.steady = r.steady /\ e.before = r.before /\ e.after = r.after
  BY <1>1 DEF RunRecords
<1> HIDE DEF e
<1>5. \A g \in Guarded(r.tool) : g \in r.moved \/ Holds(e, g, disk'[g])
  BY <1>1, <1>2, <1>4 DEF GuardInv, Checked, Holds
<1>6. PlanInv(e)
  BY <1>1, <1>4 DEF PlanInv, Planning
<1>7. RunInv(new, disk')
  <2>1. CASE rest = {}
    <3>1. e.steady => Complete(e.tool, disk')
      <4>1. ASSUME e.steady, NEW g \in Guarded(e.tool) PROVE disk'[g] = e.after[g]
        BY <1>1, <1>4, <1>5, <2>1, <4>1 DEF HistoryInv, Holds
      <4> QED
        BY <1>4, <1>6, <4>1, AllPublished DEF Planning
    <3>2. RunInv(Finished(e, "done"), disk')
      BY <1>4, <3>1, FinishedInv DEF Ended
    <3> QED
      BY <2>1, <3>2
  <2>2. CASE rest # {}
    <3>1. RunType(e) /\ HistoryInv(e, disk')
      BY <1>1, <1>4, <2>2 DEF RunType, HistoryInv
    <3>2. GuardInv(e, disk')
      BY <1>1, <1>4, <1>5 DEF GuardInv, Checked
    <3> QED
      BY <1>6, <2>2, <3>1, <3>2 DEF RunInv
  <2> QED
    BY <2>1, <2>2
<1> HIDE DEF new
<1>8. run'[p] = new /\ \A q \in Runs \ {p} : run'[q] = Seeing(run[q], f)
  BY <1>3 DEF OthersSee
<1>9. ASSUME NEW q \in Runs PROVE RunInv(run'[q], disk') /\ run'[q] \in RunRecords
  <2>1. CASE q = p
    BY <1>7, <1>8, <2>1 DEF RunInv, RunType
  <2>2. CASE q # p
    <3>1. RunInv(run[q], disk) /\ \A g \in Files \ {f} : disk'[g] = disk[g]
      BY <1>2 DEF IInv
    <3>2. RunInv(Seeing(run[q], f), disk')
      BY <3>1, SeeingInv
    <3> QED
      BY <1>8, <2>2, <3>2 DEF RunInv, RunType
  <2> QED
    BY <2>1, <2>2
<1>10. run' \in [Runs -> RunRecords]
  <2>1. run' = [q \in Runs |-> run'[q]]
    BY <1>3 DEF OthersSee
  <2> QED
    BY <1>9, <2>1
<1>11. SharedInv'
  <2>1. r.after[f] \in Values /\ WellPlaced(r.after)
    BY <1>1 DEF RunType, RunRecords
  <2>2. f = "pyproject" => r.after[f] \in Declarations
    <3>1. CASE r.tool = "v4"
      BY <1>1, <3>1 DEF PlanInv, Plan4, Planning
    <3>2. CASE r.tool = "v5"
      BY <1>1, <3>2 DEF PlanInv, Plan5, Planning, Migrated5, Declarations
    <3> QED
      BY <1>1, <3>1, <3>2 DEF RunRecords
  <2>3. disk \in [Files -> Values] /\ WellPlaced(disk) /\ disk["pyproject"] \in Declarations
    BY DEF IInv, SharedInv
  <2>4. disk' \in [Files -> Values]
    BY <1>2, <2>1, <2>3
  <2>5. WellPlaced(disk') /\ disk'["pyproject"] \in Declarations
    BY <1>2, <2>1, <2>2, <2>3 DEF WellPlaced, Files
  <2> QED
    BY <1>3, <2>4, <2>5 DEF IInv, SharedInv, WellPlaced
<1> QED
  BY <1>9, <1>10, <1>11 DEF IInv

-----------------------------------------------------------------------------
(* The project.                                                             *)

LEMMA EditedKeeps ==
  ASSUME IInv, NEW f \in Files, NEW content \in Values, Edited(f, content),
         f = "pyproject" => content \in Declarations, f # "pyproject" => content \in Contents \union {None}
  PROVE  IInv'
<1>1. disk \in [Files -> Values] /\ WellPlaced(disk) /\ disk["pyproject"] \in Declarations
      /\ edits < MaxEdits /\ edits \in 0 .. MaxEdits /\ tree \in Trees
  BY DEF IInv, SharedInv, Edited
<1>2. disk' = [disk EXCEPT ![f] = content] /\ edits' = edits + 1 /\ tree' = tree
      /\ run' = [q \in Runs |-> Seeing(run[q], f)]
  BY DEF Edited
<1>3. disk'[f] = content /\ \A g \in Files \ {f} : disk'[g] = disk[g]
  BY <1>1, <1>2
<1>4. ASSUME NEW q \in Runs PROVE RunInv(run'[q], disk') /\ run'[q] \in RunRecords
  <2>1. RunInv(run[q], disk)
    BY DEF IInv
  <2>2. RunInv(Seeing(run[q], f), disk')
    BY <1>3, <2>1, SeeingInv
  <2> QED
    BY <1>2, <2>2 DEF RunInv, RunType
<1>5. run' \in [Runs -> RunRecords]
  BY <1>2, <1>4
<1>6. SharedInv'
  <2>1. disk' \in [Files -> Values]
    BY <1>1, <1>2
  <2>2. WellPlaced(disk') /\ disk'["pyproject"] \in Declarations
    <3>1. disk'["pyproject"] \in Declarations
      BY <1>1, <1>3 DEF Files
    <3>2. ASSUME NEW a \in Artifacts PROVE disk'[a] \in Contents \union {None}
      <4>1. a \in Files /\ a # "pyproject" /\ disk[a] \in Contents \union {None}
        BY <1>1 DEF WellPlaced, Files, Artifacts
      <4> QED
        BY <1>3, <4>1
    <3> QED
      BY <3>1, <3>2 DEF WellPlaced
  <2>3. edits' \in 0 .. MaxEdits /\ tree' \in Trees
    BY <1>1, <1>2, BoundAssumption
  <2> QED
    BY <2>1, <2>2, <2>3 DEF SharedInv, WellPlaced
<1> QED
  BY <1>4, <1>5, <1>6 DEF IInv

\* The project edits a file, or drops an artifact.
LEMMA ProjectKeeps == ASSUME IInv, EditProject \/ WriteArtifact \/ DropArtifact PROVE IInv'
<1>1. CASE EditProject
  <2> DEFINE d == disk["pyproject"]
  <2>1. PICK roots \in Roots \union {None} :
          Edited("pyproject", [d EXCEPT !.roots = roots, !.other = edits + 1])
    BY <1>1 DEF EditProject
  <2>2. edits + 1 \in 0 .. MaxEdits
    BY <2>1, BoundAssumption DEF Edited, IInv, SharedInv
  <2>3. [d EXCEPT !.roots = roots, !.other = edits + 1] \in Declarations
    BY <2>2 DEF IInv, SharedInv, Declarations
  <2>4. [d EXCEPT !.roots = roots, !.other = edits + 1] \in Values /\ "pyproject" \in Files
    BY <2>3 DEF Values, Files
  <2> QED
    BY <2>1, <2>3, <2>4, EditedKeeps
<1>2. CASE WriteArtifact
  <2>1. PICK a \in Artifacts : Edited(a, Own(edits + 1))
    BY <1>2 DEF WriteArtifact
  <2>2. edits + 1 \in 0 .. MaxEdits
    BY <2>1, BoundAssumption DEF Edited, IInv, SharedInv
  <2>3. Own(edits + 1) \in Contents
    BY <2>2 DEF Contents
  <2> QED
    BY <2>1, <2>3, EditedKeeps DEF Values, Files, Artifacts
<1>3. CASE DropArtifact
  <2>1. PICK a \in Artifacts : Edited(a, None)
    BY <1>3 DEF DropArtifact
  <2> QED
    BY <2>1, EditedKeeps DEF Values, Files, Artifacts
<1> QED
  BY <1>1, <1>2, <1>3

\* A change of the source tree moves no guarded file.
LEMMA TreeKeeps == ASSUME IInv, EditTree PROVE IInv'
<1>1. tree' \in Trees /\ edits < MaxEdits /\ edits' = edits + 1 /\ disk' = disk
      /\ run' = [q \in Runs |-> [run[q] EXCEPT !.steady = FALSE]]
  BY DEF EditTree
<1>2. ASSUME NEW q \in Runs PROVE RunInv(run'[q], disk) /\ run'[q] \in RunRecords
  <2> DEFINE r == run[q]
             e == [r EXCEPT !.steady = FALSE]
  <2>1. r \in RunRecords /\ RunType(r) /\ PlanInv(r) /\ GuardInv(r, disk) /\ HistoryInv(r, disk)
    BY OneRun
  <2>2. /\ e \in RunRecords
        /\ e.tool = r.tool /\ e.at = r.at /\ e.todo = r.todo /\ e.moved = r.moved /\ e.wrote = r.wrote
        /\ e.steady = FALSE /\ e.before = r.before /\ e.after = r.after
    BY <2>1 DEF RunRecords
  <2>3. run'[q] = e
    BY <1>1
  <2> HIDE DEF e
  <2>4. RunType(e) /\ PlanInv(e) /\ HistoryInv(e, disk)
    BY <2>1, <2>2 DEF RunType, PlanInv, HistoryInv
  <2>5. Checked(e) = Checked(r) /\ \A g \in Files : Holds(e, g, disk[g]) <=> Holds(r, g, disk[g])
    BY <2>2 DEF Checked, Holds
  <2>6. GuardInv(e, disk)
    BY <2>1, <2>2, <2>5 DEF GuardInv, Checked, Holds
  <2> QED
    BY <2>2, <2>3, <2>4, <2>6 DEF RunInv
<1>3. run' \in [Runs -> RunRecords]
  BY <1>1, <1>2
<1>4. SharedInv'
  BY <1>1, BoundAssumption DEF IInv, SharedInv, WellPlaced
<1> QED
  BY <1>1, <1>2, <1>3, <1>4 DEF IInv

-----------------------------------------------------------------------------

LEMMA IInvInit == Init => IInv
<1> SUFFICES ASSUME Init PROVE IInv
  OBVIOUS
<1>1. PICK d \in Declarations, has \in SUBSET Artifacts :
        disk = [f \in Files |-> IF f = "pyproject" THEN d ELSE IF f \in has THEN Own(0) ELSE None]
  BY DEF Init
<1>2. Own(0) \in Contents /\ edits \in 0 .. MaxEdits
  BY BoundAssumption DEF Contents, Init
<1>3. disk["pyproject"] = d /\ \A a \in Artifacts : disk[a] \in Contents \union {None}
  BY <1>1, <1>2 DEF Files, Artifacts
<1>4. disk \in [Files -> Values]
  BY <1>1, <1>2 DEF Values
<1>5. SharedInv
  BY <1>2, <1>3, <1>4 DEF SharedInv, WellPlaced, Init
<1>6. Fresh \in RunRecords /\ Fresh.at = "idle" /\ Fresh.before = Nothing /\ Fresh.after = Nothing
      /\ Fresh.steady = FALSE
  BY FreshTyped DEF Fresh
<1>7. RunType(Fresh) /\ PlanInv(Fresh) /\ GuardInv(Fresh, disk) /\ HistoryInv(Fresh, disk)
  BY <1>6, FreshTyped, Unguarded DEF RunType, PlanInv, Planning, HistoryInv
<1> QED
  BY <1>5, <1>6, <1>7 DEF Init, IInv, RunInv

LEMMA IInvNext == IInv /\ [Next]_vars => IInv'
<1> SUFFICES ASSUME IInv, [Next]_vars PROVE IInv'
  OBVIOUS
<1>1. ASSUME NEW p \in Runs, Step(p) PROVE IInv'
  BY <1>1, StartKeeps, Plan4Keeps, InferKeeps, Plan5Keeps, ArtifactKeeps, EndKeeps, BeginKeeps,
     CheckKeeps, PublishKeeps DEF Step
<1>2. CASE EditProject \/ WriteArtifact \/ DropArtifact
  BY <1>2, ProjectKeeps
<1>3. CASE EditTree
  BY <1>3, TreeKeeps
<1>4. CASE UNCHANGED vars
  BY <1>4 DEF vars, IInv, SharedInv, WellPlaced
<1> QED
  BY <1>1, <1>2, <1>3, <1>4 DEF Next

LEMMA Invariance == Spec => []IInv
BY IInvInit, IInvNext, PTL DEF Spec

-----------------------------------------------------------------------------
(* The theorems.                                                            *)

\* Every state has its types, and no plan that is going to be published takes
\* a source root outside the repository.
THEOREM TypeCorrect == Spec => []TypeOK
<1>1. IInv => TypeOK
  BY DEF IInv, SharedInv, RunInv, TypeOK
<1> QED
  BY <1>1, Invariance, PTL

\* A run that found a drifted file has replaced nothing.
THEOREM RefusedAlwaysUntouched == Spec => []RefusedMeansUntouched
<1>1. IInv => RefusedMeansUntouched
  BY DEF IInv, RunInv, HistoryInv, RefusedMeansUntouched
<1> QED
  BY <1>1, Invariance, PTL

\* An undisturbed run that says it applied its plan has completed its release,
\* from whatever earlier runs left behind.
THEOREM MigrationAlwaysConverges == Spec => []MigrationConverges
<1>1. IInv => MigrationConverges
  BY DEF IInv, RunInv, HistoryInv, MigrationConverges
<1> QED
  BY <1>1, Invariance, PTL

\* The declaration of release 5 never goes out before the artifacts it names.
THEOREM DeclarationAlwaysLast == Spec => DeclarationLast
<1> DEFINE Last == \A p \in Runs : Publish(p, "pyproject") /\ run[p].tool = "v5" =>
                     \A a \in Artifacts : disk[a] = run[p].after[a] \/ a \in run[p].moved
<1>1. IInv /\ [Next]_vars => [Last]_vars
  <2> SUFFICES ASSUME IInv, NEW p \in Runs, Publish(p, "pyproject"), run[p].tool = "v5", NEW a \in Artifacts
               PROVE  disk[a] = run[p].after[a] \/ a \in run[p].moved
    OBVIOUS
  <2>1. run[p].at = "writing" /\ a \notin run[p].todo
    BY DEF Publish, First, PublishOrder, Artifacts
  <2>2. a \in Checked(run[p]) /\ GuardInv(run[p], disk)
    BY <2>1, OneRun DEF Checked, Guarded, Files
  <2> QED
    BY <2>1, <2>2 DEF GuardInv, Holds
<1> QED
  BY <1>1, Invariance, PTL DEF Spec, DeclarationLast

\* Outside the window between a file's check and its replacement, no bytes of
\* the project's are ever lost.
THEOREM ProjectBytesAlwaysSurvive == Spec => ProjectBytesSurvive
<1> DEFINE Survives(p, f) ==
             IF f = "pyproject"
             THEN /\ disk'[f].other = disk[f].other
                  /\ disk[f].doxygen => disk'[f].doxygen
                  /\ disk[f].fields \in {"main", "all"} => disk'[f].fields = disk[f].fields
                                                          /\ disk'[f].roots = disk[f].roots
             ELSE disk[f] = None
           All == \A p \in Runs, f \in Files : Publish(p, f) /\ f \notin run[p].moved => Survives(p, f)
<1>1. IInv /\ [Next]_vars => [All]_vars
  <2> SUFFICES ASSUME IInv, NEW p \in Runs, NEW f \in Files, Publish(p, f), f \notin run[p].moved
               PROVE  Survives(p, f)
    OBVIOUS
  <2> DEFINE r == run[p]
  <2>1. r \in RunRecords /\ PlanInv(r) /\ r.at = "writing" /\ f \in Guarded(r.tool)
        /\ disk[f] = r.before[f] /\ disk'[f] = r.after[f] /\ r.before[f] # r.after[f]
    BY OneRun, AboutToPublish
  <2>2. CASE f = "pyproject" /\ r.tool = "v4"
    BY <2>1, <2>2 DEF PlanInv, Plan4, Planning
  <2>3. CASE f = "pyproject" /\ r.tool = "v5"
    <3>1. Plan5(disk[f], disk'[f])
      BY <2>1, <2>3 DEF PlanInv, Planning
    <3> QED
      BY <2>3, <3>1 DEF Plan5, Migrated5, Declarations
  <2>4. CASE f # "pyproject"
    <3>1. f \in Artifacts /\ r.tool = "v5"
      BY <2>1, <2>4 DEF Guarded, Files, RunRecords
    <3>2. r.after[f] = Planned(r.before[f], r.before["pyproject"].roots)
      BY <2>1, <3>1 DEF PlanInv, Planning
    <3> QED
      BY <2>1, <2>4, <3>2 DEF Planned
  <2> QED
    BY <2>1, <2>2, <2>3, <2>4 DEF RunRecords
<1> QED
  BY <1>1, Invariance, PTL DEF Spec, ProjectBytesSurvive
=============================================================================
