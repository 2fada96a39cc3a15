--------------------------- MODULE ReleaseProofs ---------------------------
(***************************************************************************)
(* What release.py promises, for every source tree, baseline, host and     *)
(* interleaving of edits, baseline updates, failures and kills.  The       *)
(* invariant says at each phase of the staging what the checks passed so   *)
(* far have established (StagedInv), what of it is the live tree's while   *)
(* nobody edited that (CertifiedInv), which steps of the gate have passed  *)
(* (GateInv), what became of the archive (ArchiveInv) and where the        *)
(* baselines came from (BaselineInv).                                      *)
(***************************************************************************)
EXTENDS Release, TLAPS

\* The phases from each check of the staged tree on.
AfterPrune     == {"ledger", "documents", "members", "scan", "truncate", "write"}
AfterLedger    == {"documents", "members", "scan", "truncate", "write"}
AfterDocuments == {"members", "scan", "truncate", "write"}
AfterMembers   == {"scan", "truncate", "write"}
AfterScan      == {"truncate", "write"}

StagedInv ==
  LET c == staging.content  m == staging.manifest IN
  /\ run.phase \in {"install", "seed", "prune"} => \A d \in Upstream : "cache" \notin c[d]
  /\ run.phase = "prune" => \A d \in Upstream : m[d] = c[d]
  /\ run.phase \in AfterPrune =>
       \A d \in Upstream : c[d] \cap {"cache", "product"} = {} /\ c[d] = m[d] \ {"product"}
  /\ run.phase \in AfterLedger => c["learning"] = {"seed"}
  /\ run.phase \in AfterMembers =>
       "required" \in c["discipline"] /\ "pins" \in c["tools"] /\ "guide" \in c["documents"]
  /\ run.phase \in AfterScan => \A d \in Directories : "leak" \notin c[d]

CertifiedInv ==
  LET c == staging.content  t == src.tree IN
  run.quiet =>
    /\ run.phase = "install" => \A d \in Upstream \ run.todo : c[d] = t[d] \ {"cache"}
    /\ run.phase \in {"seed", "prune"} => \A d \in Upstream : c[d] = t[d] \ {"cache"}
    /\ run.phase \in AfterPrune => \A d \in Upstream : c[d] = t[d] \ {"cache", "product"}
    /\ run.phase \in AfterDocuments => c["documents"] = t["documents"]

Passes(i) == StepPasses(GATE[i], src, base, alive)
AllPass == \A i \in 1..Len(GATE) : Passes(i)

GateInv ==
  run.quiet /\ ~run.skip =>
    /\ run.phase \in {"gate", "hung"} /\ ~run.failed => \A i \in 1..(run.step - 1) : Passes(i)
    /\ run.phase \in Staging \cup {"staging"} => AllPass
    /\ run.verdict = "ok" => AllPass

ArchiveInv ==
  /\ Running /\ run.phase # "write" => dist = run.found
  /\ RefusalKeepsArchive
  /\ WhatShipsWasChecked
  /\ CertifiedShips

\* What discrimination_gate holds: the tree of its mutations, and with it that of
\* the registry they were resolved in, and that of the registry read again.
Matrix(m) == \E s \in Sources : DiscriminationRun(s) /\ m = <<s>>
Resolved(m) == \E r \in Resolving : m = <<r[1], r[2]>>
Reread(m) == \E r \in Resolving, u \in Sources : m = <<r[1], r[2], u>>

\* A measurement in hand, and a baseline on disk, is of trees that existed.
Reading == {"witnesses", "strategies", "gap"}

BaselineInv ==
  /\ CeilingsWereMeasured
  /\ maint.phase \in Reading => maint.cmd = "disc"
  /\ maint.cmd = "lint" => maint.measured \in LintCeilings
  /\ maint.phase = "witnesses" => Matrix(maint.measured)
  /\ maint.phase = "strategies" => Resolved(maint.measured)
  /\ maint.phase = "gap" => Reread(maint.measured)
  /\ maint.cmd = "disc" /\ maint.phase \notin Reading => maint.measured \in DiscCeilings

IInv == TypeOK /\ StagedInv /\ CertifiedInv /\ GateInv /\ ArchiveInv /\ BaselineInv

-----------------------------------------------------------------------------
(* A run's record, and what the shared variables are when it moves.         *)

LEMMA GateLength == Len(GATE) = 11
  BY DEF GATE

LEMMA EndedFields ==
  ASSUME NEW r \in Runs, NEW v \in Verdicts
  PROVE  LET e == Ended(r, v) IN
         /\ e \in Runs /\ e.phase = "ended" /\ e.verdict = v
         /\ e.mode = r.mode /\ e.skip = r.skip /\ e.quiet = r.quiet /\ e.found = r.found
  BY DEF Ended, Runs, Phases

LEMMA MovedFields ==
  ASSUME NEW r \in Runs, NEW p \in Phases
  PROVE  LET e == [r EXCEPT !.phase = p] IN
         /\ e \in Runs /\ e.phase = p /\ e.todo = r.todo /\ e.verdict = r.verdict /\ e.step = r.step
         /\ e.mode = r.mode /\ e.skip = r.skip /\ e.quiet = r.quiet /\ e.found = r.found
         /\ e.failed = r.failed
  BY DEF Runs

LEMMA NoticedFields ==
  ASSUME NEW r \in Runs
  PROVE  LET e == [r EXCEPT !.quiet = FALSE] IN
         /\ e \in Runs /\ e.phase = r.phase /\ e.todo = r.todo /\ e.verdict = r.verdict
         /\ e.step = r.step /\ e.mode = r.mode /\ e.skip = r.skip /\ e.quiet = FALSE
         /\ e.found = r.found
  BY DEF Runs

\* Runs end at any point; what they had staged may stay or go.
LEMMA EndingStep ==
  ASSUME IInv, Running, NEW v \in {"failed", "refused", "error", "killed"},
         run.phase = "write" => v \notin {"failed", "refused"},
         run' = Ended(run, v), staging' \in Stagings,
         UNCHANGED <<src, base, alive, maint, dist, spent>>
  PROVE  IInv'
<1>1. TypeOK /\ run \in Runs /\ run.phase # "ended"
  BY DEF IInv, TypeOK, Running
<1>2. run' \in Runs /\ run'.phase = "ended" /\ run'.verdict = v /\ run'.found = run.found
      /\ run'.mode = run.mode
  BY <1>1, EndedFields DEF Verdicts
<1>3. TypeOK'
  BY <1>1, <1>2 DEF TypeOK
<1>4. StagedInv' /\ CertifiedInv' /\ GateInv'
  BY <1>2 DEF StagedInv, CertifiedInv, GateInv, AfterPrune, AfterLedger, AfterDocuments,
              AfterMembers, AfterScan, Staging
<1>5. ArchiveInv'
  BY <1>1, <1>2 DEF IInv, ArchiveInv, Running, RefusalKeepsArchive, WhatShipsWasChecked, CertifiedShips
<1>6. BaselineInv'
  BY DEF IInv, BaselineInv, CeilingsWereMeasured
<1> QED
  BY <1>3, <1>4, <1>5, <1>6 DEF IInv

\* A check of what was staged that stops the release.
LEMMA RefusingStep ==
  ASSUME IInv, run.phase \in Staging \ {"write"}, Refuse("refused"),
         UNCHANGED <<src, base, alive, maint, dist, spent>>
  PROVE  IInv'
<1>1. staging' \in Stagings
  BY DEF IInv, TypeOK, Refuse, CleanUp, Unstaged, Stagings, Empty, Content
<1>2. Running /\ run' = Ended(run, "refused")
  BY DEF Refuse, Running, Staging
<1> QED
  BY <1>1, <1>2, EndingStep

\* From one phase of the staging to another.
LEMMA StagingStep ==
  ASSUME IInv, run.phase \in ({"staging"} \cup Staging) \ {"write"}, run' \in Runs,
         run'.phase \in Staging \ {"write"}, run'.verdict = run.verdict, run'.mode = run.mode,
         run'.skip = run.skip, run'.quiet = run.quiet, run'.found = run.found,
         staging' \in Stagings, StagedInv', CertifiedInv',
         UNCHANGED <<src, base, alive, maint, dist, spent>>
  PROVE  IInv'
<1>1. run.phase # "ended" /\ run.verdict = "running"
  BY DEF IInv, TypeOK, Staging
<1>2. TypeOK'
  BY <1>1 DEF IInv, TypeOK, Staging
<1>3. GateInv'
  BY <1>1 DEF IInv, GateInv, AllPass, Passes, Staging
<1>4. ArchiveInv'
  BY <1>1 DEF IInv, ArchiveInv, Running, RefusalKeepsArchive, WhatShipsWasChecked, CertifiedShips, Staging
<1>5. BaselineInv'
  BY DEF IInv, BaselineInv, CeilingsWereMeasured
<1> QED
  BY <1>2, <1>3, <1>4, <1>5 DEF IInv

-----------------------------------------------------------------------------
(* The steps of the staging, each with what its check establishes.          *)

LEMMA SourceTyped == IInv => src \in Sources /\ src.tree \in Content
  BY SourcesAssumption DEF IInv, TypeOK

\* Replacing one directory keeps the others.
LEMMA StageTyped ==
  ASSUME NEW c \in Content, NEW m \in Content, NEW d \in Directories, NEW S \in SUBSET Items
  PROVE  /\ [c EXCEPT ![d] = S] \in Content
         /\ [c EXCEPT ![d] = S][d] = S
         /\ \A e \in Directories \ {d} : [c EXCEPT ![d] = S][e] = c[e]
         /\ [content |-> c, manifest |-> m] \in Stagings
  BY DEF Content, Stagings

LEMMA PrepareStep == IInv /\ Prepare => IInv'
<1> SUFFICES ASSUME IInv, Prepare PROVE IInv'
  OBVIOUS
<1>1. run \in Runs /\ run.phase = "staging"
  BY DEF IInv, TypeOK, Prepare, At
<1>2. run' = [run EXCEPT !.phase = "install", !.todo = Upstream]
  BY DEF Prepare
<1>3. /\ run' \in Runs /\ run'.phase = "install" /\ run'.todo = Upstream
      /\ run'.verdict = run.verdict /\ run'.mode = run.mode /\ run'.skip = run.skip
      /\ run'.quiet = run.quiet /\ run'.found = run.found
  BY <1>1, <1>2 DEF Runs, Phases, Staging
<1>4. staging' = Unstaged /\ staging' \in Stagings
  BY DEF Prepare, Unstaged, Stagings, Empty, Content
<1>5. StagedInv'
  BY <1>3, <1>4 DEF StagedInv, Unstaged, Empty, Directories, Upstream, AfterPrune, AfterLedger,
                    AfterMembers, AfterScan
<1>6. CertifiedInv'
  BY <1>3 DEF CertifiedInv, AfterPrune, AfterDocuments
<1> QED
  BY <1>1, <1>3, <1>4, <1>5, <1>6, StagingStep DEF Prepare, Staging

LEMMA InstallStep == IInv /\ InstallDirectory => IInv'
<1> SUFFICES ASSUME IInv, InstallDirectory PROVE IInv'
  OBVIOUS
<1>1. run \in Runs /\ run.phase = "install" /\ staging.content \in Content
      /\ staging.manifest \in Content
  BY DEF IInv, TypeOK, InstallDirectory, At, Stagings
<1>2. PICK d \in run.todo :
        /\ Stage([staging.content EXCEPT ![d] = src.tree[d] \ Skipped], staging.manifest)
        /\ run' = [run EXCEPT !.todo = @ \ {d}, !.phase = IF run.todo = {d} THEN "seed" ELSE "install"]
  BY DEF InstallDirectory
<1>3. /\ run' \in Runs /\ run'.phase = (IF run.todo = {d} THEN "seed" ELSE "install")
      /\ run'.todo = run.todo \ {d}
      /\ run'.verdict = run.verdict /\ run'.mode = run.mode /\ run'.skip = run.skip
      /\ run'.quiet = run.quiet /\ run'.found = run.found
  BY <1>1, <1>2 DEF Runs, Phases, Staging
<1>4. d \in Upstream /\ d \in Directories /\ src.tree[d] \in SUBSET Items
  BY <1>1, SourceTyped DEF Runs, Directories, Content
<1>5. /\ staging' \in Stagings /\ staging'.content[d] = src.tree[d] \ {"cache"}
      /\ \A e \in Directories \ {d} : staging'.content[e] = staging.content[e]
  <2> DEFINE S == src.tree[d] \ {"cache"}
  <2>1. S \in SUBSET Items
    BY <1>4
  <2>2. staging' = [content |-> [staging.content EXCEPT ![d] = S], manifest |-> staging.manifest]
    BY <1>2 DEF Stage, Skipped
  <2> HIDE DEF S
  <2>3. /\ [staging.content EXCEPT ![d] = S] \in Content
        /\ [staging.content EXCEPT ![d] = S][d] = S
        /\ \A e \in Directories \ {d} : [staging.content EXCEPT ![d] = S][e] = staging.content[e]
    BY <1>1, <1>4, <2>1, StageTyped DEF Content
  <2> QED
    BY <1>1, <2>2, <2>3 DEF S, Stagings
<1>6. \A e \in Upstream : "cache" \notin staging'.content[e]
  BY <1>1, <1>4, <1>5 DEF IInv, StagedInv, Directories
<1>7. StagedInv'
  BY <1>3, <1>6 DEF StagedInv, AfterPrune, AfterLedger, AfterMembers, AfterScan
<1>8. run.quiet => \A e \in Upstream \ run'.todo : staging'.content[e] = src.tree[e] \ {"cache"}
  BY <1>1, <1>3, <1>5 DEF IInv, CertifiedInv, Directories
<1>9. CertifiedInv'
  <2>1. src' = src
    BY DEF InstallDirectory
  <2>2. run'.phase = "seed" => run'.todo = {}
    BY <1>3
  <2> QED
    BY <1>3, <1>8, <2>1, <2>2 DEF CertifiedInv, AfterPrune, AfterDocuments
<1> QED
  BY <1>1, <1>3, <1>5, <1>7, <1>9, StagingStep DEF InstallDirectory, Staging

LEMMA SeedStep == IInv /\ SeedLedger => IInv'
<1> SUFFICES ASSUME IInv, SeedLedger PROVE IInv'
  OBVIOUS
<1>1. run \in Runs /\ run.phase = "seed" /\ staging.content \in Content
      /\ staging.manifest \in Content /\ src' = src
  BY DEF IInv, TypeOK, SeedLedger, At, Stagings
<1>2. /\ run' \in Runs /\ run'.phase = "prune"
      /\ run'.verdict = run.verdict /\ run'.mode = run.mode /\ run'.skip = run.skip
      /\ run'.quiet = run.quiet /\ run'.found = run.found
  BY <1>1, MovedFields DEF SeedLedger, To, Phases, Staging
<1> DEFINE m == [d \in Directories |-> IF d \in Upstream THEN staging.content[d] ELSE {}]
<1>3. m \in Content /\ \A d \in Upstream : m[d] = staging.content[d]
  BY <1>1 DEF Content, Directories
<1>4. src.tree["learning"] \cap Seeds \in SUBSET Items /\ "learning" \in Directories
  BY SourceTyped DEF Content, Directories
<1>5. /\ staging' \in Stagings /\ staging'.manifest = m
      /\ \A d \in Upstream : staging'.content[d] = staging.content[d]
  <2> DEFINE S == src.tree["learning"] \cap Seeds
             c == [staging.content EXCEPT !["learning"] = S]
  <2>1. c \in Content /\ \A e \in Directories \ {"learning"} : c[e] = staging.content[e]
    <3> HIDE DEF S
    <3> QED
      BY <1>1, <1>4, StageTyped DEF S, Content
  <2>2. staging' = [content |-> c, manifest |-> m]
    BY DEF SeedLedger, Stage
  <2> HIDE DEF c, m
  <2> QED
    BY <1>3, <2>1, <2>2 DEF Stagings, Directories, Upstream
<1>6. StagedInv'
  BY <1>1, <1>2, <1>3, <1>5 DEF IInv, StagedInv, AfterPrune, AfterLedger, AfterMembers, AfterScan
<1>7. CertifiedInv'
  BY <1>1, <1>2, <1>5 DEF IInv, CertifiedInv, AfterPrune, AfterDocuments
<1> QED
  BY <1>1, <1>2, <1>5, <1>6, <1>7, StagingStep DEF SeedLedger, Staging

LEMMA PruneStep == IInv /\ Prune => IInv'
<1> SUFFICES ASSUME IInv, Prune PROVE IInv'
  OBVIOUS
<1>1. run \in Runs /\ run.phase = "prune" /\ staging.content \in Content
      /\ staging.manifest \in Content /\ src' = src
  BY DEF IInv, TypeOK, Prune, At, Stagings
<1>2. /\ run' \in Runs /\ run'.phase = "ledger"
      /\ run'.verdict = run.verdict /\ run'.mode = run.mode /\ run'.skip = run.skip
      /\ run'.quiet = run.quiet /\ run'.found = run.found
  BY <1>1, MovedFields DEF Prune, To, Phases, Staging
<1>3. /\ staging' \in Stagings /\ staging'.manifest = staging.manifest
      /\ \A d \in Directories : staging'.content[d] = staging.content[d] \ {"cache", "product"}
  BY <1>1 DEF Prune, Stage, WithoutPruned, Pruned, Stagings, Content
<1>4. \A d \in Upstream : "cache" \notin staging.content[d] /\ staging.manifest[d] = staging.content[d]
  BY <1>1 DEF IInv, StagedInv
<1>5. StagedInv'
  BY <1>2, <1>3, <1>4 DEF StagedInv, AfterPrune, AfterLedger, AfterMembers, AfterScan, Directories
<1>6. CertifiedInv'
  <2>1. run.quiet => \A d \in Upstream : staging.content[d] = src.tree[d] \ {"cache"}
    BY <1>1 DEF IInv, CertifiedInv
  <2> QED
    BY <1>1, <1>2, <1>3, <2>1 DEF CertifiedInv, AfterPrune, AfterDocuments, Directories
<1> QED
  BY <1>1, <1>2, <1>3, <1>5, <1>6, StagingStep DEF Prune, Staging

\* The three checks that look and leave the staged tree as it is.
LEMMA CheckingSteps == IInv /\ (CheckLedger \/ CheckMembers \/ ScanTree) => IInv'
<1> SUFFICES ASSUME IInv, CheckLedger \/ CheckMembers \/ ScanTree PROVE IInv'
  OBVIOUS
<1>1. run \in Runs /\ staging \in Stagings /\ UNCHANGED <<src, base, alive, maint, dist, spent>>
  BY DEF IInv, TypeOK, CheckLedger, CheckMembers, ScanTree
<1>2. CASE Refuse("refused")
  BY <1>1, <1>2, RefusingStep DEF CheckLedger, CheckMembers, ScanTree, At, Staging
<1>3. ASSUME NEW from \in {"ledger", "members", "scan"}, NEW p \in Staging \ {"write"},
             run.phase = from, To(p), staging' = staging, StagedInv', CertifiedInv'
      PROVE  IInv'
  <2>1. /\ run' \in Runs /\ run'.phase = p
        /\ run'.verdict = run.verdict /\ run'.mode = run.mode /\ run'.skip = run.skip
        /\ run'.quiet = run.quiet /\ run'.found = run.found
    BY <1>1, <1>3, MovedFields DEF To, Phases
  <2> QED
    BY <1>1, <1>3, <2>1, StagingStep DEF Staging
<1>4. CASE run.phase = "ledger" /\ LedgerEmpty(staging.content) /\ To("documents") /\ UNCHANGED staging
  <2>1. run'.phase = "documents" /\ run'.quiet = run.quiet
    BY <1>1, <1>4, MovedFields DEF To, Phases, Staging
  <2>2. StagedInv'
    BY <1>4, <2>1 DEF IInv, StagedInv, LedgerEmpty, Seeds, AfterPrune, AfterLedger, AfterMembers, AfterScan
  <2>3. CertifiedInv'
    BY <1>1, <1>4, <2>1 DEF IInv, CertifiedInv, AfterPrune, AfterDocuments
  <2> QED
    BY <1>3, <1>4, <2>2, <2>3 DEF Staging
<1>5. CASE /\ run.phase = "members" /\ RequiredPresent(staging.content)
           /\ RequirementsClosed(staging.content) /\ To("scan") /\ UNCHANGED staging
  <2>1. run'.phase = "scan" /\ run'.quiet = run.quiet
    BY <1>1, <1>5, MovedFields DEF To, Phases, Staging
  <2>2. "required" \in staging.content["discipline"] /\ "guide" \in staging.content["documents"]
        /\ "pins" \in staging.content["tools"]
    BY <1>5 DEF RequiredPresent, RequiredMembers, RequirementsClosed
  <2>3. StagedInv'
    BY <1>5, <2>1, <2>2 DEF IInv, StagedInv, AfterPrune, AfterLedger, AfterMembers, AfterScan
  <2>4. CertifiedInv'
    BY <1>1, <1>5, <2>1 DEF IInv, CertifiedInv, AfterPrune, AfterDocuments
  <2> QED
    BY <1>3, <1>5, <2>3, <2>4 DEF Staging
<1>6. CASE run.phase = "scan" /\ Stops(staging.content) = {} /\ To("truncate") /\ UNCHANGED staging
  <2>1. run'.phase = "truncate" /\ run'.quiet = run.quiet
    BY <1>1, <1>6, MovedFields DEF To, Phases, Staging
  <2>2. \A d \in Directories : "leak" \notin staging.content[d]
    <3> SUFFICES ASSUME NEW d \in Directories, "leak" \in staging.content[d] PROVE FALSE
      OBVIOUS
    <3>1. "leak" \in Scanned(staging.content)
      BY DEF Scanned, Items
    <3> QED
      BY <1>6, <3>1 DEF Stops, Excuse, Reviewable
  <2>3. StagedInv'
    BY <1>6, <2>1, <2>2 DEF IInv, StagedInv, AfterPrune, AfterLedger, AfterMembers, AfterScan
  <2>4. CertifiedInv'
    BY <1>1, <1>6, <2>1 DEF IInv, CertifiedInv, AfterPrune, AfterDocuments
  <2> QED
    BY <1>3, <1>6, <2>3, <2>4 DEF Staging
<1> QED
  BY <1>2, <1>4, <1>5, <1>6 DEF CheckLedger, CheckMembers, ScanTree, At

LEMMA DocumentsStep == IInv /\ CopyDocuments => IInv'
<1> SUFFICES ASSUME IInv, CopyDocuments PROVE IInv'
  OBVIOUS
<1>1. run \in Runs /\ run.phase = "documents" /\ staging.content \in Content
      /\ staging.manifest \in Content /\ UNCHANGED <<src, base, alive, maint, dist, spent>>
  BY DEF IInv, TypeOK, CopyDocuments, At, Stagings
<1>2. CASE "guide" \in src.tree["documents"]
  <2>1. /\ run' \in Runs /\ run'.phase = "members"
        /\ run'.verdict = run.verdict /\ run'.mode = run.mode /\ run'.skip = run.skip
        /\ run'.quiet = run.quiet /\ run'.found = run.found
    <3>1. To("members")
      BY <1>2 DEF CopyDocuments
    <3> QED
      BY <1>1, <3>1, MovedFields DEF To, Phases, Staging
  <2>2. "documents" \in Directories /\ src.tree["documents"] \in SUBSET Items
    BY SourceTyped DEF Directories, Content
  <2>3. /\ staging' \in Stagings /\ staging'.manifest = staging.manifest
        /\ staging'.content["documents"] = src.tree["documents"]
        /\ \A d \in Upstream \cup {"learning"} : staging'.content[d] = staging.content[d]
    <3> DEFINE S == src.tree["documents"]
               c == [staging.content EXCEPT !["documents"] = S]
    <3>1. c \in Content /\ c["documents"] = S
          /\ \A e \in Directories \ {"documents"} : c[e] = staging.content[e]
      <4> HIDE DEF S
      <4> QED
        BY <1>1, <2>2, StageTyped DEF S, Content
    <3>2. staging' = [content |-> c, manifest |-> staging.manifest]
      BY <1>2 DEF CopyDocuments, Stage
    <3> HIDE DEF c
    <3> QED
      BY <1>1, <3>1, <3>2 DEF Stagings, Directories, Upstream
  <2>4. StagedInv'
    BY <1>1, <2>1, <2>3 DEF IInv, StagedInv, AfterPrune, AfterLedger, AfterMembers, AfterScan
  <2>5. CertifiedInv'
    BY <1>1, <2>1, <2>3 DEF IInv, CertifiedInv, AfterPrune, AfterDocuments
  <2> QED
    BY <1>1, <2>1, <2>3, <2>4, <2>5, StagingStep DEF Staging
<1>3. CASE "guide" \notin src.tree["documents"]
  BY <1>1, <1>3, RefusingStep DEF CopyDocuments, Staging
<1> QED
  BY <1>2, <1>3

-----------------------------------------------------------------------------
(* The archive.                                                             *)

\* The archive is opened last, when nothing can refuse the release any more.
LEMMA TruncateStep == IInv /\ Truncate => IInv'
<1> SUFFICES ASSUME IInv, Truncate PROVE IInv'
  OBVIOUS
<1>1. run \in Runs /\ run.phase = "truncate" /\ run.verdict = "running"
      /\ UNCHANGED <<src, base, alive, maint, staging, spent>>
  BY DEF IInv, TypeOK, Truncate, At
<1>2. /\ run' \in Runs /\ run'.phase = "write" /\ run'.verdict = "running"
      /\ run'.mode = run.mode /\ run'.skip = run.skip /\ run'.quiet = run.quiet
      /\ run'.found = run.found
  BY <1>1, MovedFields DEF Truncate, To, Phases, Staging
<1>3. dist' \in Archives /\ dist'.state = "torn"
  BY DEF Truncate, NoArchive, Archives, Content, Empty
<1>4. TypeOK'
  BY <1>1, <1>2, <1>3 DEF IInv, TypeOK
<1>5. StagedInv' /\ CertifiedInv'
  BY <1>1, <1>2 DEF IInv, StagedInv, CertifiedInv, AfterPrune, AfterLedger, AfterDocuments,
                    AfterMembers, AfterScan
<1>6. GateInv'
  BY <1>1, <1>2 DEF IInv, GateInv, AllPass, Passes, Staging
<1>7. ArchiveInv'
  BY <1>2, <1>3 DEF ArchiveInv, RefusalKeepsArchive, WhatShipsWasChecked, CertifiedShips
<1>8. BaselineInv'
  BY <1>1 DEF IInv, BaselineInv, CeilingsWereMeasured
<1> QED
  BY <1>4, <1>5, <1>6, <1>7, <1>8 DEF IInv

\* What is written is what the phases before have established of the staged tree.
LEMMA WriteStep == IInv /\ WriteArchive => IInv'
<1> SUFFICES ASSUME IInv, WriteArchive PROVE IInv'
  OBVIOUS
<1>1. run \in Runs /\ run.phase = "write" /\ staging \in Stagings
      /\ UNCHANGED <<src, base, alive, maint, spent>>
  BY DEF IInv, TypeOK, WriteArchive, At
<1>2. /\ run' \in Runs /\ run'.phase = "ended" /\ run'.verdict = "ok"
      /\ run'.mode = run.mode /\ run'.skip = run.skip /\ run'.quiet = run.quiet
  BY <1>1, EndedFields DEF WriteArchive, Verdicts
<1>3. /\ dist' \in Archives /\ dist'.state = "whole"
      /\ dist'.content = staging.content /\ dist'.manifest = staging.manifest
  BY <1>1 DEF WriteArchive, Archives, Stagings
<1>4. staging' \in Stagings
  BY <1>1 DEF WriteArchive, CleanUp, Unstaged, Stagings, Empty, Content
<1>5. TypeOK'
  BY <1>1, <1>2, <1>3, <1>4 DEF IInv, TypeOK
<1>6. StagedInv' /\ CertifiedInv'
  BY <1>2 DEF StagedInv, CertifiedInv, AfterPrune, AfterLedger, AfterDocuments, AfterMembers, AfterScan
<1>7. GateInv'
  BY <1>1, <1>2 DEF IInv, GateInv, AllPass, Passes, Staging
<1>8. WhatShipsWasChecked'
  BY <1>1, <1>3 DEF IInv, StagedInv, WhatShipsWasChecked, AfterPrune, AfterLedger, AfterMembers,
                    AfterScan, Directories, Upstream
<1>9. CertifiedShips'
  <2> SUFFICES ASSUME run.quiet PROVE staging.content = Shipped(src)
    BY <1>1, <1>2, <1>3 DEF CertifiedShips, Shipped
  <2>1. /\ \A d \in Upstream : staging.content[d] = src.tree[d] \ {"cache", "product"}
        /\ staging.content["documents"] = src.tree["documents"]
        /\ staging.content["learning"] = {"seed"}
    BY <1>1 DEF IInv, StagedInv, CertifiedInv, AfterPrune, AfterLedger, AfterDocuments
  <2>2. staging.content \in Content
    BY <1>1 DEF Stagings
  <2>3. \A d \in Directories : staging.content[d] = Shipped(src)[d]
    BY <2>1 DEF Shipped, Directories, Upstream
  <2> QED
    BY <2>2, <2>3 DEF Shipped, Content
<1>10. ArchiveInv'
  BY <1>2, <1>8, <1>9 DEF ArchiveInv, Running, RefusalKeepsArchive
<1>11. BaselineInv'
  BY <1>1 DEF IInv, BaselineInv, CeilingsWereMeasured
<1> QED
  BY <1>5, <1>6, <1>7, <1>10, <1>11 DEF IInv

\* Errors and kills, and the half hour gate.py gives a step.
LEMMA StoppingSteps == IInv /\ (Fail \/ Kill \/ TimeOut) => IInv'
<1> SUFFICES ASSUME IInv, Fail \/ Kill \/ TimeOut PROVE IInv'
  OBVIOUS
<1>1. staging \in Stagings /\ Unstaged \in Stagings
  BY DEF IInv, TypeOK, Unstaged, Stagings, Empty, Content
<1>2. CASE Fail
  <2>1. Running /\ UNCHANGED <<src, base, alive, maint, dist, spent>>
    BY <1>2 DEF Fail, Running, Staging
  <2>2. CASE Refuse("error")
    BY <1>1, <2>1, <2>2, EndingStep DEF Refuse, CleanUp
  <2>3. CASE ~At("write") /\ Refuse("refused")
    BY <1>2, <2>1, <2>3, RefusingStep DEF Fail, At
  <2> QED
    BY <1>2, <2>2, <2>3 DEF Fail
<1>3. CASE Kill
  BY <1>1, <1>3, EndingStep DEF Kill
<1>4. CASE TimeOut
  BY <1>1, <1>4, EndingStep DEF TimeOut, At, Running
<1> QED
  BY <1>2, <1>3, <1>4

-----------------------------------------------------------------------------
(* The gate.                                                                *)

LEMMA StartStep == IInv /\ Start => IInv'
<1> SUFFICES ASSUME IInv, Start PROVE IInv'
  OBVIOUS
<1>1. UNCHANGED <<src, base, alive, maint, staging, dist>> /\ TypeOK /\ dist \in Archives
  BY DEF IInv, TypeOK, Start
<1>2. PICK mode \in {"gate", "release"}, flag \in BOOLEAN, keep \in BOOLEAN :
        run' = Begun(mode, flag, keep)
  BY DEF Start
<1>3. /\ run' \in Runs /\ run'.phase \in {"gate", "staging"} /\ run'.verdict = "running"
      /\ run'.step = 1 /\ run'.found = dist
      /\ (run'.phase = "staging" => run'.skip)
  BY <1>1, <1>2, GateLength DEF Begun, Runs, Phases, Verdicts
<1>4. spent' \in [edits : 0..MaxEdits, updates : 0..MaxUpdates, runs : 0..MaxRuns]
  BY BoundsAssumption DEF IInv, TypeOK, Start
<1>5. TypeOK'
  BY <1>1, <1>3, <1>4, GateLength DEF TypeOK
<1>6. StagedInv' /\ CertifiedInv'
  BY <1>3 DEF StagedInv, CertifiedInv, AfterPrune, AfterLedger, AfterDocuments, AfterMembers, AfterScan
<1>7. GateInv'
  BY <1>3 DEF GateInv, Staging
<1>8. ArchiveInv'
  BY <1>1, <1>3 DEF IInv, ArchiveInv, RefusalKeepsArchive, WhatShipsWasChecked, CertifiedShips
<1>9. BaselineInv'
  BY <1>1 DEF IInv, BaselineInv, CeilingsWereMeasured
<1> QED
  BY <1>5, <1>6, <1>7, <1>8, <1>9 DEF IInv

LEMMA HangStep == IInv /\ Hang => IInv'
<1> SUFFICES ASSUME IInv, Hang PROVE IInv'
  OBVIOUS
<1>1. run \in Runs /\ run.phase = "gate" /\ run.verdict = "running"
      /\ UNCHANGED <<src, base, alive, maint, staging, dist, spent>>
  BY DEF IInv, TypeOK, Hang, At
<1>2. /\ run' \in Runs /\ run'.phase = "hung" /\ run'.verdict = "running"
      /\ run'.mode = run.mode /\ run'.skip = run.skip /\ run'.quiet = run.quiet
      /\ run'.found = run.found /\ run'.step = run.step /\ run'.failed = run.failed
  BY <1>1, MovedFields DEF Hang, To, Phases
<1>3. TypeOK'
  BY <1>1, <1>2 DEF IInv, TypeOK
<1>4. StagedInv' /\ CertifiedInv'
  BY <1>2 DEF StagedInv, CertifiedInv, AfterPrune, AfterLedger, AfterDocuments, AfterMembers, AfterScan
<1>5. GateInv'
  BY <1>1, <1>2 DEF IInv, GateInv, AllPass, Passes, Staging
<1>6. ArchiveInv'
  BY <1>1, <1>2 DEF IInv, ArchiveInv, Running, RefusalKeepsArchive, WhatShipsWasChecked, CertifiedShips
<1>7. BaselineInv'
  BY <1>1 DEF IInv, BaselineInv, CeilingsWereMeasured
<1> QED
  BY <1>3, <1>4, <1>5, <1>6, <1>7 DEF IInv

\* A step of the gate is remembered: the run goes on only while all have passed.
LEMMA RunStepStep == IInv /\ RunStep => IInv'
<1> SUFFICES ASSUME IInv, RunStep PROVE IInv'
  OBVIOUS
<1>1. run \in Runs /\ run.phase = "gate" /\ run.verdict = "running" /\ run.step \in 1..11
      /\ UNCHANGED <<src, base, alive, maint, staging, dist, spent>>
  BY GateLength DEF IInv, TypeOK, RunStep, At
<1> DEFINE passed == Passes(run.step)
           failed == run.failed \/ ~passed
           s == [run EXCEPT !.failed = failed, !.step = run.step + 1]
<1> HIDE DEF passed
<1>2. /\ s \in Runs /\ s.phase = "gate" /\ s.verdict = "running" /\ s.step = run.step + 1
      /\ s.failed = failed /\ s.mode = run.mode /\ s.skip = run.skip
      /\ s.quiet = run.quiet /\ s.found = run.found
  <2>1. failed \in BOOLEAN
    BY <1>1 DEF Runs
  <2>2. run.step + 1 \in 1..(Len(GATE) + 1)
    BY <1>1, GateLength
  <2> HIDE DEF failed
  <2> QED
    BY <1>1, <2>1, <2>2 DEF Runs
<1>3. run' = IF s.step > 11 \/ (s.early /\ ~passed) THEN GateVerdict(s) ELSE s
  BY GateLength DEF RunStep, Judged, Passes, passed
<1> HIDE DEF s
<1>4. run.quiet /\ ~run.skip /\ ~s.failed => \A i \in 1..(s.step - 1) : Passes(i)
  <2> SUFFICES ASSUME run.quiet, ~run.skip, ~s.failed, NEW i \in 1..(s.step - 1) PROVE Passes(i)
    OBVIOUS
  <2>1. ~run.failed /\ passed
    BY <1>2
  <2>2. CASE i = run.step
    BY <2>1, <2>2 DEF passed
  <2>3. CASE i # run.step
    <3>1. i \in 1..(run.step - 1)
      BY <1>1, <1>2, <2>3
    <3> QED
      BY <1>1, <2>1, <3>1 DEF IInv, GateInv
  <2> QED
    BY <2>2, <2>3
<1>5. /\ run' \in Runs /\ run'.mode = run.mode /\ run'.skip = run.skip /\ run'.quiet = run.quiet
      /\ run'.found = run.found
      /\ \/ run' = s /\ s.step \in 1..11
         \/ run'.phase = "ended" /\ run'.verdict = "failed"
         \/ ~s.failed /\ s.step = 12 /\ run'.phase = "ended" /\ run'.verdict = "ok" /\ run.mode = "gate"
         \/ ~s.failed /\ s.step = 12 /\ run'.phase = "staging" /\ run'.verdict = "running"
  <2>1. CASE s.step > 11 \/ (s.early /\ ~passed)
    <3>1. ~s.failed => s.step = 12
      <4>1. ~passed => failed
        OBVIOUS
      <4> HIDE DEF failed
      <4> QED
        BY <1>1, <1>2, <2>1, <4>1
    <3>2. run' = GateVerdict(s)
      BY <1>3, <2>1
    <3>3. "ok" \in Verdicts /\ "failed" \in Verdicts /\ "staging" \in Phases
      BY DEF Verdicts, Phases
    <3>4. CASE s.mode = "gate" /\ s.failed
      <4>1. run' = Ended(s, "failed")
        BY <3>2, <3>4 DEF GateVerdict
      <4> QED
        BY <1>2, <3>3, <4>1, EndedFields
    <3>5. CASE s.mode = "gate" /\ ~s.failed
      <4>1. run' = Ended(s, "ok")
        BY <3>2, <3>5 DEF GateVerdict
      <4> QED
        BY <1>2, <3>1, <3>3, <3>5, <4>1, EndedFields
    <3>6. CASE s.mode # "gate" /\ s.failed
      <4>1. run' = Ended(s, "failed")
        BY <3>2, <3>6 DEF GateVerdict
      <4> QED
        BY <1>2, <3>3, <4>1, EndedFields
    <3>7. CASE s.mode # "gate" /\ ~s.failed
      <4>1. run' = [s EXCEPT !.phase = "staging"]
        BY <3>2, <3>7 DEF GateVerdict
      <4> QED
        BY <1>2, <3>1, <3>3, <3>7, <4>1, MovedFields
    <3> QED
      BY <3>4, <3>5, <3>6, <3>7
  <2>2. CASE ~(s.step > 11 \/ (s.early /\ ~passed))
    BY <1>1, <1>2, <1>3, <2>2
  <2> QED
    BY <2>1, <2>2
<1>6. TypeOK'
  BY <1>1, <1>2, <1>5, GateLength DEF IInv, TypeOK
<1>7. StagedInv' /\ CertifiedInv'
  BY <1>2, <1>5 DEF StagedInv, CertifiedInv, AfterPrune, AfterLedger, AfterDocuments, AfterMembers, AfterScan
<1>8. ~s.failed /\ s.step = 12 /\ run.quiet /\ ~run.skip => AllPass
  BY <1>4, GateLength DEF AllPass
<1>9. GateInv'
  <2>1. \A i : Passes(i)' = Passes(i)
    BY <1>1 DEF Passes
  <2>2. AllPass => AllPass'
    BY <2>1 DEF AllPass
  <2> QED
    BY <1>2, <1>4, <1>5, <1>8, <2>1, <2>2 DEF GateInv, Staging
<1>10. ArchiveInv'
  BY <1>1, <1>2, <1>5 DEF IInv, ArchiveInv, Running, RefusalKeepsArchive, WhatShipsWasChecked, CertifiedShips
<1>11. BaselineInv'
  BY <1>1 DEF IInv, BaselineInv, CeilingsWereMeasured
<1> QED
  BY <1>6, <1>7, <1>9, <1>10, <1>11 DEF IInv

-----------------------------------------------------------------------------
(* What changes the source tree and the baselines.                          *)

IsBase(b) == b = [lint |-> b.lint, docs |-> b.docs, disc |-> b.disc]
IsMaint(m) ==
  /\ m = [cmd |-> m.cmd, phase |-> m.phase, measured |-> m.measured]
  /\ m.cmd \in IF m.phase = "idle" THEN {"none"} ELSE Baselines
  /\ m.phase \in {"idle", "write", "fill"} \cup Reading

Spent == [edits : 0..MaxEdits, updates : 0..MaxUpdates, runs : 0..MaxRuns]

\* A run in progress no longer claims anything of a tree or baseline that moved.
LEMMA NoticedStep ==
  ASSUME IInv, Noticed, UNCHANGED <<alive, staging, dist>>, src' \in Sources, IsBase(base'),
         IsMaint(maint'), spent' \in Spent, BaselineInv'
  PROVE  IInv'
<1>1. run \in Runs
  BY DEF IInv, TypeOK
<1>2. /\ run' \in Runs /\ run'.phase = run.phase /\ run'.todo = run.todo
      /\ run'.verdict = run.verdict /\ run'.step = run.step /\ run'.quiet = FALSE
      /\ run'.found = run.found
  BY <1>1, NoticedFields DEF Noticed
<1>3. TypeOK'
  BY <1>2 DEF IInv, TypeOK, IsBase, IsMaint, Reading, Spent
<1>4. StagedInv' /\ CertifiedInv' /\ GateInv'
  BY <1>2 DEF IInv, StagedInv, CertifiedInv, GateInv
<1>5. ArchiveInv'
  BY <1>2 DEF IInv, ArchiveInv, Running, RefusalKeepsArchive, WhatShipsWasChecked, CertifiedShips
<1> QED
  BY <1>3, <1>4, <1>5 DEF IInv

LEMMA SpentTyped ==
  ASSUME IInv
  PROVE  /\ spent \in Spent
         /\ spent.edits < MaxEdits => [spent EXCEPT !.edits = @ + 1] \in Spent
         /\ spent.updates < MaxUpdates => [spent EXCEPT !.updates = @ + 1] \in Spent
  BY BoundsAssumption DEF IInv, TypeOK, Spent

LEMMA EditStep == IInv /\ Edit => IInv'
<1> SUFFICES ASSUME IInv, Edit PROVE IInv'
  OBVIOUS
<1>1. /\ UNCHANGED <<base, alive, maint, staging, dist>> /\ src' \in Sources /\ Noticed
      /\ spent' \in Spent
  BY SpentTyped DEF Edit
<1>2. IsBase(base') /\ IsMaint(maint')
  BY <1>1 DEF IInv, TypeOK, IsBase, IsMaint, Reading
<1>3. BaselineInv'
  BY <1>1 DEF IInv, BaselineInv, CeilingsWereMeasured
<1> QED
  BY <1>1, <1>2, <1>3, NoticedStep

\* What a command holds when it begins.
LEMMA BeginsStep ==
  ASSUME IInv, NEW cmd \in Baselines, NEW phase \in {"write", "witnesses"}, NEW m,
         Begins(cmd, phase, m),
         phase = "witnesses" => cmd = "disc" /\ Matrix(m),
         phase = "write" => cmd # "disc",
         cmd = "lint" => m \in LintCeilings
  PROVE  IInv'
<1>1. /\ UNCHANGED <<src, base, alive, staging, dist>> /\ src \in Sources /\ Noticed
      /\ spent' \in Spent
  BY SpentTyped DEF Begins, IInv, TypeOK
<1>2. IsBase(base')
  BY <1>1 DEF IInv, TypeOK, IsBase
<1>3. maint' = [cmd |-> cmd, phase |-> phase, measured |-> m]
  BY DEF Begins
<1>4. IsMaint(maint')
  BY <1>3 DEF IsMaint, Reading
<1>5. BaselineInv'
  BY <1>1, <1>3 DEF IInv, BaselineInv, CeilingsWereMeasured, Reading
<1> QED
  BY <1>1, <1>2, <1>4, <1>5, NoticedStep

LEMMA MeasureStep == IInv /\ (MeasureLint \/ MeasureDocs \/ RunMatrix) => IInv'
<1> SUFFICES ASSUME IInv, MeasureLint \/ MeasureDocs \/ RunMatrix PROVE IInv'
  OBVIOUS
<1>1. src \in Sources
  BY DEF IInv, TypeOK
<1>2. CASE MeasureLint
  <2>1. MeasuredLint(src) \in LintCeilings
    BY <1>1, <1>2 DEF MeasureLint, LintUpdatable, LintCeilings
  <2> QED
    BY <1>2, <2>1, BeginsStep DEF MeasureLint, Baselines
<1>3. CASE MeasureDocs
  <2>1. PICK m : Begins("docs", "write", m)
    BY <1>3 DEF MeasureDocs
  <2> QED
    BY <2>1, BeginsStep DEF Baselines
<1>4. CASE RunMatrix
  <2>1. Matrix(<<src>>)
    BY <1>1, <1>4 DEF RunMatrix, Matrix
  <2> QED
    BY <1>4, <2>1, BeginsStep DEF RunMatrix, Baselines
<1> QED
  BY <1>2, <1>3, <1>4

\* A command reads on, or ends with nothing: no file changes.
LEMMA MaintStays ==
  ASSUME IInv, UNCHANGED <<src, base, alive, run, staging, dist, spent>>,
         IsMaint(maint'), BaselineInv'
  PROVE  IInv'
<1>1. TypeOK'
  BY DEF IInv, TypeOK, IsMaint, Reading
<1>2. StagedInv' /\ CertifiedInv' /\ ArchiveInv'
  BY DEF IInv, StagedInv, CertifiedInv, ArchiveInv, Running, RefusalKeepsArchive,
         WhatShipsWasChecked, CertifiedShips
<1>3. GateInv'
  BY DEF IInv, GateInv, AllPass, Passes
<1> QED
  BY <1>1, <1>2, <1>3 DEF IInv

LEMMA DroppedStep ==
  ASSUME IInv, maint' = NoMaint, UNCHANGED <<src, base, alive, run, staging, dist, spent>>
  PROVE  IInv'
<1>1. IsMaint(maint')
  BY DEF IsMaint, NoMaint
<1>2. BaselineInv'
  BY DEF IInv, BaselineInv, CeilingsWereMeasured, NoMaint, Reading
<1> QED
  BY <1>1, <1>2, MaintStays

LEMMA ReadsOnStep ==
  ASSUME IInv, NEW phase \in {"strategies", "gap", "write"}, NEW m, ReadsOn(phase, m),
         phase = "strategies" => Resolved(m), phase = "gap" => Reread(m),
         phase = "write" => m \in DiscCeilings
  PROVE  IInv'
<1>1. /\ UNCHANGED <<src, base, alive, run, staging, dist, spent>>
      /\ maint' = [cmd |-> "disc", phase |-> phase, measured |-> m]
  BY DEF ReadsOn
<1>2. IsMaint(maint')
  BY <1>1 DEF IsMaint, Baselines, Reading
<1>3. BaselineInv'
  BY <1>1 DEF IInv, BaselineInv, CeilingsWereMeasured, Reading
<1> QED
  BY <1>1, <1>2, <1>3, MaintStays

\* Each reading adds the tree it is of.
LEMMA ReadingSteps == IInv /\ (ReadWitnesses \/ ReadStrategies \/ ReadCorpus \/ KillMaint) => IInv'
<1> SUFFICES ASSUME IInv, ReadWitnesses \/ ReadStrategies \/ ReadCorpus \/ KillMaint PROVE IInv'
  OBVIOUS
<1> DEFINE read == maint.measured
<1>1. src \in Sources /\ BaselineInv
  BY DEF IInv, TypeOK
<1>2. CASE ReadWitnesses
  <2>1. PICK s \in Sources : DiscriminationRun(s) /\ read = <<s>>
    BY <1>1, <1>2 DEF ReadWitnesses, BaselineInv, Matrix
  <2>2. read[1] = s
    BY <2>1
  <2> HIDE DEF read
  <2>3. CASE WitnessesResolve(s.entries, src.automated)
    <3> DEFINE r == <<s, src>>
    <3>1. r \in Resolving /\ r[1] = s /\ r[2] = src
      BY <1>1, <2>1, <2>3 DEF Resolving
    <3>2. Resolved(<<s, src>>)
      BY <3>1 DEF Resolved
    <3>3. ReadsOn("strategies", <<s, src>>)
      BY <1>2, <2>2, <2>3 DEF ReadWitnesses, read
    <3> QED
      BY <3>2, <3>3, ReadsOnStep
  <2>4. CASE ~WitnessesResolve(s.entries, src.automated)
    BY <1>2, <2>2, <2>4, DroppedStep DEF ReadWitnesses, read
  <2> QED
    BY <2>3, <2>4
<1>3. CASE ReadStrategies
  <2>1. PICK r \in Resolving : read = <<r[1], r[2]>>
    BY <1>1, <1>3 DEF ReadStrategies, BaselineInv, Resolved
  <2>2. Reread(<<r[1], r[2], src>>)
    BY <1>1 DEF Reread
  <2>3. read[1] = r[1] /\ read[2] = r[2]
    BY <2>1
  <2>4. ReadsOn("gap", <<r[1], r[2], src>>)
    BY <1>3, <2>3 DEF ReadStrategies
  <2> QED
    BY <2>2, <2>4, ReadsOnStep
<1>4. CASE ReadCorpus
  <2>1. PICK r \in Resolving, u \in Sources : read = <<r[1], r[2], u>>
    BY <1>1, <1>4 DEF ReadCorpus, BaselineInv, Reread
  <2>2. MeasuredDiscrimination(r[1], r[2], u, src) \in DiscCeilings
    BY <1>1 DEF DiscCeilings
  <2>3. read[1] = r[1] /\ read[2] = r[2] /\ read[3] = u
    BY <2>1
  <2>4. ReadsOn("write", MeasuredDiscrimination(r[1], r[2], u, src))
    BY <1>4, <2>3 DEF ReadCorpus
  <2> QED
    BY <2>2, <2>4, ReadsOnStep
<1>5. CASE KillMaint
  BY <1>5, DroppedStep DEF KillMaint
<1> QED
  BY <1>2, <1>3, <1>4, <1>5

\* A baseline is emptied and then filled with what its command measured.
LEMMA BaselineSteps == IInv /\ (EmptyBaseline \/ FillBaseline) => IInv'
<1> SUFFICES ASSUME IInv, EmptyBaseline \/ FillBaseline PROVE IInv'
  OBVIOUS
<1>1. /\ UNCHANGED <<src, alive, staging, dist, spent>> /\ src \in Sources /\ Noticed
      /\ IsBase(base) /\ IsMaint(maint) /\ spent \in Spent
  BY SpentTyped DEF IInv, TypeOK, EmptyBaseline, FillBaseline, IsBase, IsMaint
<1>2. maint.phase \in {"write", "fill"} /\ maint.cmd \in Baselines
  BY <1>1 DEF EmptyBaseline, FillBaseline, IsMaint
<1>3. ASSUME NEW b, base' = [base EXCEPT ![maint.cmd] = b]
      PROVE  /\ IsBase(base')
             /\ base'.lint = IF maint.cmd = "lint" THEN b ELSE base.lint
             /\ base'.disc = IF maint.cmd = "disc" THEN b ELSE base.disc
  <2>1. base = [lint |-> base.lint, docs |-> base.docs, disc |-> base.disc]
    BY <1>1 DEF IsBase
  <2>2. CASE maint.cmd = "lint"
    BY <1>3, <2>1, <2>2 DEF IsBase
  <2>3. CASE maint.cmd = "docs"
    BY <1>3, <2>1, <2>3 DEF IsBase
  <2>4. CASE maint.cmd = "disc"
    BY <1>3, <2>1, <2>4 DEF IsBase
  <2> QED
    BY <1>2, <2>2, <2>3, <2>4 DEF Baselines
<1>4. CASE EmptyBaseline
  <2>1. base' = [base EXCEPT ![maint.cmd] = Torn] /\ maint' = [maint EXCEPT !.phase = "fill"]
    BY <1>4 DEF EmptyBaseline
  <2>2. maint' = [cmd |-> maint.cmd, phase |-> "fill", measured |-> maint.measured]
    BY <1>1, <2>1 DEF IsMaint
  <2>3. IsMaint(maint')
    BY <1>2, <2>2 DEF IsMaint
  <2>4. BaselineInv'
    BY <1>2, <1>3, <1>4, <2>1, <2>2 DEF IInv, BaselineInv, CeilingsWereMeasured, EmptyBaseline, Reading
  <2> QED
    BY <1>1, <1>3, <2>1, <2>3, <2>4, NoticedStep
<1>5. CASE FillBaseline
  <2>1. base' = [base EXCEPT ![maint.cmd] = maint.measured] /\ maint' = NoMaint
    BY <1>5 DEF FillBaseline
  <2>2. IsMaint(maint') /\ maint'.cmd = "none" /\ maint'.phase = "idle"
    BY <2>1 DEF IsMaint, NoMaint
  <2>3. maint.cmd = "disc" => maint.measured \in DiscCeilings
    BY <1>2, <1>5 DEF FillBaseline, IInv, BaselineInv, Reading
  <2>4. BaselineInv'
    BY <1>3, <2>1, <2>2, <2>3 DEF IInv, BaselineInv, CeilingsWereMeasured, Reading
  <2> QED
    BY <1>1, <1>3, <2>1, <2>2, <2>4, NoticedStep
<1> QED
  BY <1>4, <1>5

-----------------------------------------------------------------------------
(* The invariant.                                                           *)

\* The archive of an earlier release meets the same standard.
LEMMA FormerChecked ==
  /\ Former(Recorded) \in Archives /\ Kept(Recorded) \in Stagings
  /\ LET c == Former(Recorded).content  m == Former(Recorded).manifest IN
     /\ \A d \in Directories : "leak" \notin c[d]
     /\ \A d \in Upstream \cup {"learning"} : c[d] \cap {"cache", "product"} = {}
     /\ "note" \notin c["learning"] /\ "seed" \in c["learning"]
     /\ "required" \in c["discipline"] /\ "pins" \in c["tools"] /\ "guide" \in c["documents"]
     /\ \A d \in Upstream : c[d] = m[d] \ {"product"}
<1> DEFINE t == Recorded.tree
           c == Former(Recorded).content
           m == Former(Recorded).manifest
<1>1. t \in Content
  BY RecordedAssumption, SourcesAssumption
<1>2. /\ c = [d \in Directories |-> CASE d \in Upstream -> t[d] \ Pruned
                                      [] d = "learning" -> Seeds
                                      [] d = "documents" -> t[d]]
      /\ m = [d \in Directories |-> IF d \in Upstream THEN t[d] \ Skipped ELSE {}]
      /\ Former(Recorded) = [state |-> "whole", content |-> c, manifest |-> m]
      /\ Kept(Recorded) = [content |-> c, manifest |-> m]
  BY DEF Former, Kept
<1> HIDE DEF c, m
<1>3. /\ \A d \in Upstream : c[d] = t[d] \ {"cache", "product"} /\ m[d] = t[d] \ {"cache"}
      /\ c["learning"] = {"seed"} /\ c["documents"] = t["documents"]
  BY <1>2 DEF Directories, Upstream, Pruned, Skipped, Seeds
<1>4. \A d \in Directories : c[d] \in SUBSET Items /\ m[d] \in SUBSET Items
  BY <1>1, <1>2, <1>3 DEF Content, Directories, Upstream, Items
<1>5. c \in Content /\ m \in Content
  BY <1>2, <1>4 DEF Content
<1>6. \A d \in Directories : "leak" \notin c[d]
  <2> SUFFICES ASSUME NEW d \in Directories, "leak" \in c[d] PROVE FALSE
    OBVIOUS
  <2>1. "leak" \in Scanned(c)
    BY DEF Scanned, Items
  <2> QED
    BY <2>1, FormerAssumption DEF c, Stops, Excuse, Reviewable
<1>7. "required" \in t["discipline"] /\ "pins" \in t["tools"] /\ "guide" \in t["documents"]
  BY FormerAssumption DEF RequiredPresent, RequiredMembers, RequirementsClosed
<1>8. Former(Recorded) \in Archives /\ Kept(Recorded) \in Stagings
  <2>1. /\ Former(Recorded) = [state |-> "whole", content |-> c, manifest |-> m]
        /\ Kept(Recorded) = [content |-> c, manifest |-> m]
    BY <1>2
  <2> QED
    BY <1>5, <2>1 DEF Archives, Stagings
<1> QED
  BY <1>3, <1>6, <1>7, <1>8 DEF c, m, Upstream

LEMMA IInvInit == Init => IInv
<1> SUFFICES ASSUME Init PROVE IInv
  OBVIOUS
<1>1. run = NoRun /\ maint = NoMaint /\ src \in Sources /\ alive \in Hosts
      /\ spent = [edits |-> 0, updates |-> 0, runs |-> 0]
      /\ base = [lint |-> MeasuredLint(Recorded), docs |-> MeasuredDocs(Recorded),
                 disc |-> MeasuredDiscrimination(Recorded, Recorded, Recorded, Recorded)]
  BY DEF Init
<1>2. Empty \in Content /\ NoArchive \in Archives /\ Unstaged \in Stagings
  BY DEF Empty, Content, NoArchive, Archives, Unstaged, Stagings
<1>3. staging \in Stagings /\ dist \in Archives
  BY <1>2, FormerChecked DEF Init
<1>4. run \in Runs /\ run.phase = "ended" /\ run.verdict = "none"
  BY <1>1, <1>2, GateLength DEF NoRun, Runs, Phases, Verdicts
<1>5. spent \in Spent
  BY <1>1, BoundsAssumption DEF Spent
<1>6. TypeOK
  BY <1>1, <1>3, <1>4, <1>5 DEF TypeOK, Spent, NoMaint
<1>7. StagedInv /\ CertifiedInv /\ GateInv
  BY <1>4 DEF StagedInv, CertifiedInv, GateInv, Staging, AfterPrune, AfterLedger, AfterDocuments,
              AfterMembers, AfterScan
<1>8. WhatShipsWasChecked
  <2>1. CASE dist = NoArchive
    BY <2>1 DEF NoArchive, WhatShipsWasChecked
  <2>2. CASE dist = Former(Recorded)
    BY <2>2, FormerChecked DEF WhatShipsWasChecked
  <2> QED
    BY <2>1, <2>2 DEF Init
<1>9. ArchiveInv
  BY <1>4, <1>8 DEF ArchiveInv, Running, RefusalKeepsArchive, CertifiedShips
<1>10. BaselineInv
  <2>1. base.lint \in LintCeilings
    BY <1>1, RecordedAssumption DEF LintCeilings
  <2>2. base.disc \in DiscCeilings
    <3> DEFINE r == <<Recorded, Recorded>>
    <3>1. r \in Resolving /\ r[1] = Recorded /\ r[2] = Recorded
      BY RecordedAssumption DEF Resolving
    <3> HIDE DEF r
    <3> QED
      BY <1>1, <3>1, RecordedAssumption DEF DiscCeilings
  <2> QED
    BY <1>1, <2>1, <2>2 DEF BaselineInv, CeilingsWereMeasured, NoMaint, Reading
<1> QED
  BY <1>6, <1>7, <1>9, <1>10 DEF IInv

LEMMA IInvNext == IInv /\ [Next]_vars => IInv'
<1> SUFFICES ASSUME IInv, [Next]_vars PROVE IInv'
  OBVIOUS
<1>1. CASE UNCHANGED vars
  BY <1>1 DEF vars, IInv, TypeOK, StagedInv, CertifiedInv, GateInv, AllPass, Passes, ArchiveInv,
              Running, RefusalKeepsArchive, WhatShipsWasChecked, CertifiedShips, BaselineInv,
              CeilingsWereMeasured
<1>2. CASE Start \/ RunStep \/ Hang
  BY <1>2, StartStep, RunStepStep, HangStep
<1>3. CASE BuildStep
  BY <1>3, PrepareStep, InstallStep, SeedStep, PruneStep, CheckingSteps, DocumentsStep, TruncateStep,
     WriteStep DEF BuildStep
<1>4. CASE Fail \/ Kill \/ TimeOut
  BY <1>4, StoppingSteps
<1>5. CASE MaintStep \/ KillMaint
  BY <1>5, MeasureStep, ReadingSteps, BaselineSteps DEF MaintStep
<1>6. CASE Edit
  BY <1>6, EditStep
<1> QED
  BY <1>1, <1>2, <1>3, <1>4, <1>5, <1>6 DEF Next, GateStep

-----------------------------------------------------------------------------
(* The theorems.                                                            *)

\* Eleven steps that passed over a measured baseline are what the gate is for.
LEMMA PassedIsPromised ==
  ASSUME src \in Sources, AllPass,
         CeilingsWereMeasured
  PROVE  Promised(src, base)
<1>1. \A i \in 1..11 : StepPasses(GATE[i], src, base, alive)
  BY GateLength DEF AllPass, Passes
<1>2. /\ StepPasses("format and lint", src, base, alive) /\ StepPasses("rule corpus", src, base, alive)
      /\ StepPasses("navigation graph", src, base, alive)
      /\ StepPasses("generated artefacts", src, base, alive)
      /\ StepPasses("skill mirror", src, base, alive) /\ StepPasses("documentation", src, base, alive)
      /\ StepPasses("import contracts", src, base, alive) /\ StepPasses("types", src, base, alive)
      /\ StepPasses("discrimination", src, base, alive) /\ StepPasses("tests", src, base, alive)
  <2>1. StepPasses("format and lint", src, base, alive)
    <3>1. GATE[1] = "format and lint"
      BY DEF GATE
    <3>2. StepPasses(GATE[1], src, base, alive)
      BY <1>1
    <3> QED
      BY <3>1, <3>2, Zenon
  <2>2. StepPasses("rule corpus", src, base, alive)
    <3>1. GATE[2] = "rule corpus"
      BY DEF GATE
    <3>2. StepPasses(GATE[2], src, base, alive)
      BY <1>1
    <3> QED
      BY <3>1, <3>2, Zenon
  <2>3. StepPasses("navigation graph", src, base, alive)
    <3>1. GATE[3] = "navigation graph"
      BY DEF GATE
    <3>2. StepPasses(GATE[3], src, base, alive)
      BY <1>1
    <3> QED
      BY <3>1, <3>2, Zenon
  <2>4. StepPasses("generated artefacts", src, base, alive)
    <3>1. GATE[4] = "generated artefacts"
      BY DEF GATE
    <3>2. StepPasses(GATE[4], src, base, alive)
      BY <1>1
    <3> QED
      BY <3>1, <3>2, Zenon
  <2>5. StepPasses("skill mirror", src, base, alive)
    <3>1. GATE[5] = "skill mirror"
      BY DEF GATE
    <3>2. StepPasses(GATE[5], src, base, alive)
      BY <1>1
    <3> QED
      BY <3>1, <3>2, Zenon
  <2>6. StepPasses("documentation", src, base, alive)
    <3>1. GATE[6] = "documentation"
      BY DEF GATE
    <3>2. StepPasses(GATE[6], src, base, alive)
      BY <1>1
    <3> QED
      BY <3>1, <3>2, Zenon
  <2>7. StepPasses("import contracts", src, base, alive)
    <3>1. GATE[7] = "import contracts"
      BY DEF GATE
    <3>2. StepPasses(GATE[7], src, base, alive)
      BY <1>1
    <3> QED
      BY <3>1, <3>2, Zenon
  <2>8. StepPasses("types", src, base, alive)
    <3>1. GATE[8] = "types"
      BY DEF GATE
    <3>2. StepPasses(GATE[8], src, base, alive)
      BY <1>1
    <3> QED
      BY <3>1, <3>2, Zenon
  <2>9. StepPasses("discrimination", src, base, alive)
    <3>1. GATE[9] = "discrimination"
      BY DEF GATE
    <3>2. StepPasses(GATE[9], src, base, alive)
      BY <1>1
    <3> QED
      BY <3>1, <3>2, Zenon
  <2>10. StepPasses("tests", src, base, alive)
    <3>1. GATE[11] = "tests"
      BY DEF GATE
    <3>2. StepPasses(GATE[11], src, base, alive)
      BY <1>1
    <3> QED
      BY <3>1, <3>2, Zenon
  <2> QED
    BY <2>1, <2>2, <2>3, <2>4, <2>5, <2>6, <2>7, <2>8, <2>9, <2>10
<1>3. LintGate(src, base.lint, alive) /\ DocGate(src, base.docs, alive) /\ ImportGate(src)
      /\ TypeGate(src, alive) /\ DiscriminationGate(src, base.disc) /\ TestsPass(src)
  BY <1>2 DEF StepPasses
<1>4. src.stale = {}
  BY <1>2, SourcesAssumption DEF StepPasses
<1>5. /\ \A p \in Pairs : src.findings[p] > 0 => p.code \notin PROTECTED /\ p \in base.lint.pairs
      /\ CountOf(src) <= base.lint.count
  <2>1. base.lint # Absent
    BY <1>3, AbsentAssumption DEF LintGate, CeilingsWereMeasured, LintCeilings
  <2>2. JudgeLint(src, base.lint)
    BY <1>3, <2>1 DEF LintGate, LoadLintBaseline
  <2> QED
    BY <2>2 DEF JudgeLint, PairsOf, Protected
<1>6. /\ \A f \in Files : src.shape[f] \in {"none", base.docs[f]} \/ base.docs[f] = "none"
      /\ src.documented \/ "checkers" \notin alive
  BY <1>3 DEF DocGate, CheckBehaviour, RunDocChecks
<1>7. DiscriminationRun(src) /\ RatchetsHeld(src, Provoked(src), base.disc)
  <2>1. base.disc # Absent
    BY <1>3, AbsentAssumption DEF DiscriminationGate, CeilingsWereMeasured, DiscCeilings, Resolving
  <2> QED
    BY <1>3, <2>1 DEF DiscriminationGate
<1>8. \A e \in src.entries : ~e.drifted /\ Provokes(e)
  BY <1>7 DEF DiscriminationRun, Broken
<1>9. CreditEarned(src)
  <2> SUFFICES ASSUME NEW e \in src.entries
               PROVE  /\ ~e.drifted
                      /\ e.kind # "node" \/ e.known => e.rejects /\ (e.kind # "proof" => e.clean)
                      /\ e.kind \in {"repository", "proof"} => e.known
    BY DEF CreditEarned
  <2>1. e.kind \in EntryKinds
    BY SourcesAssumption
  <2>2. CASE e.kind \in {"check", "tool"}
    BY <1>7, <1>8, <2>2 DEF DiscriminationRun, Preflight, Of, Provokes
  <2>3. CASE e.kind = "node"
    BY <1>3, <1>8, <2>3 DEF TestsPass, Of, Provokes
  <2>4. CASE e.kind = "repository"
    BY <1>7, <1>8, <2>4 DEF DiscriminationRun, Preflight, Of, Provokes
  <2>5. CASE e.kind = "proof"
    BY <1>8, <2>5 DEF Provokes
  <2> QED
    BY <2>1, <2>2, <2>3, <2>4, <2>5 DEF EntryKinds
<1>10. Cardinality({e.rule : e \in src.entries}) >= base.disc.count
  <2>1. Provoked(src) = {e.rule : e \in src.entries}
    BY <1>7 DEF DiscriminationRun, Provoked
  <2> QED
    BY <1>7, <2>1 DEF RatchetsHeld
<1> QED
  BY <1>3, <1>4, <1>5, <1>6, <1>9, <1>10 DEF Promised, ImportGate, TypeGate, TestsPass

\* Every variable keeps its shape through every run of gate.py and release.py.
THEOREM TypeCorrect == Spec => []TypeOK
<1>1. IInv => TypeOK
  BY DEF IInv
<1> QED
  BY IInvInit, IInvNext, <1>1, PTL DEF Spec

\* A whole archive holds nothing that blocks, leaks or was built, and all that
\* is required (release.py: prune, check_ledger_empty, check_members, scan_tree).
THEOREM OnlyCheckedShips == Spec => []WhatShipsWasChecked
<1>1. IInv => WhatShipsWasChecked
  BY DEF IInv, ArchiveInv
<1> QED
  BY IInvInit, IInvNext, <1>1, PTL DEF Spec

\* A refused release leaves the archive it found (release.py: main, build).
THEOREM RefusalAlwaysKeepsArchive == Spec => []RefusalKeepsArchive
<1>1. IInv => RefusalKeepsArchive
  BY DEF IInv, ArchiveInv
<1> QED
  BY IInvInit, IInvNext, <1>1, PTL DEF Spec

\* An undisturbed release ships the whole of the tree its gate looked at,
\* whatever an earlier run left in the staging directory (release.py: stage, build).
THEOREM CertifiedAlwaysShips == Spec => []CertifiedShips
<1>1. IInv => CertifiedShips
  BY DEF IInv, ArchiveInv
<1> QED
  BY IInvInit, IInvNext, <1>1, PTL DEF Spec

\* An undisturbed run that says ok keeps every promise of the gate, the credit of
\* every test pytest can find included, because the last step runs it undamaged
\* (gate.py: GATE; discrimination_gate.py: fails_against).
THEOREM OkAlwaysEarned == Spec => []OkIsEarned
<1>1. IInv => OkIsEarned
  BY PassedIsPromised DEF IInv, TypeOK, GateInv, BaselineInv, OkIsEarned
<1> QED
  BY IInvInit, IInvNext, <1>1, PTL DEF Spec

\* No kill and no edit between the readings of a command invents a ceiling
\* (lint_gate.py: write_baseline; discrimination_gate.py: main).
THEOREM CeilingsAlwaysMeasured == Spec => []CeilingsWereMeasured
<1>1. IInv => CeilingsWereMeasured
  BY DEF IInv, BaselineInv
<1> QED
  BY IInvInit, IInvNext, <1>1, PTL DEF Spec

=============================================================================
