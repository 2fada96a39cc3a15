------------------------------ MODULE Release ------------------------------
(***************************************************************************)
(* The maintainer's side: tools/gate.py and tools/release.py over a source *)
(* tree somebody may edit, with the commands that move the baselines.      *)
(*                                                                         *)
(* A release runs the gate over the live tree, then installs it into a     *)
(* staging directory (vendor.install, one upstream directory at a time),   *)
(* prunes, checks and scans what it staged and writes the archive in       *)
(* place.  Content is a set of items per directory: what an item is called *)
(* says how the program treats it.                                         *)
(***************************************************************************)
EXTENDS Ratchets

CONSTANTS Sources,      \* source trees, as Ratchets has them, with
                        \* tree : [Directories -> SUBSET Items]
          Hosts,        \* sets of tools that work
          Recorded,     \* the source the committed baselines were measured on
          MaxEdits,     \* bound on edits of the source tree
          MaxUpdates,   \* bound on baseline updates
          MaxRuns       \* bound on runs of the gate or the release

ASSUME RecordedAssumption ==
    /\ Recorded \in Sources
    /\ Protected(PairsOf(Recorded)) = {}
    /\ DiscriminationRun(Recorded)
    /\ WitnessesResolve(Recorded.entries, Recorded.automated)

ASSUME BoundsAssumption == {MaxEdits, MaxUpdates, MaxRuns} \subseteq Nat

VARIABLES src,          \* the live source tree
          base,         \* the committed baselines: lint, docs, disc
          alive,        \* tools that work
          maint,        \* a command that updates a baseline
          run,          \* a run of gate.py or release.py
          staging,      \* the staging directory
          dist,         \* the archive under its final name
          spent         \* edits, updates and runs so far

vars == <<src, base, alive, maint, run, staging, dist, spent>>

-----------------------------------------------------------------------------
Upstream == {"discipline", "tools"}         \* directories vendor replaces
Directories == Upstream \cup {"learning", "documents"}

\* "cache": vendor skips it.  "product": vendor copies it, prune removes it.
Items == {"module", "required", "pins", "cache", "product", "leak", "excused",
          "contact", "binary", "seed", "note", "guide"}

Content == [Directories -> SUBSET Items]

\* How a declared mutation's rejection is observed.
EntryKinds == {"check", "tool", "node", "repository", "proof"}

ASSUME SourcesAssumption ==
    \A s \in Sources :
        /\ s.tree \in Content
        /\ \A e \in s.entries :
              e.kind \in EntryKinds /\ {e.rejects, e.clean, e.drifted, e.known} \subseteq BOOLEAN
        /\ s.stale \subseteq {"rule corpus", "navigation graph", "generated artefacts", "skill mirror"}

Skipped == {"cache"}
Pruned == {"cache", "product"}
Seeds == {"seed"}

\* partition: allowed fixtures and reviewable patterns are printed, the rest stops.
Excuse == {"excused"}
Reviewable == {"contact"}
Scanned(content) == {i \in Items \ {"binary"} : \E d \in Directories : i \in content[d]}
Stops(content) == (Scanned(content) \cap {"leak", "excused", "contact"}) \ (Excuse \cup Reviewable)

RequiredMembers == [d \in {"discipline", "documents"} |->
                       IF d = "discipline" THEN "required" ELSE "guide"]
RequiredPresent(content) == \A d \in DOMAIN RequiredMembers : RequiredMembers[d] \in content[d]
RequirementsClosed(content) == "pins" \in content["tools"]

LedgerEmpty(content) == content["learning"] = Seeds

Empty == [d \in Directories |-> {}]
NoArchive == [state |-> "none", content |-> Empty, manifest |-> Empty]
Unstaged == [content |-> Empty, manifest |-> Empty]

GATE == <<"format and lint", "rule corpus", "navigation graph", "generated artefacts",
          "skill mirror", "documentation", "import contracts", "types",
          "discrimination", "documentation build", "tests">>

StepPasses(name, s, b, tools) ==
    CASE name = "format and lint" -> LintGate(s, b.lint, tools)
      [] name = "documentation" -> DocGate(s, b.docs, tools)
      [] name = "import contracts" -> ImportGate(s)
      [] name = "types" -> TypeGate(s, tools)
      [] name = "discrimination" -> DiscriminationGate(s, b.disc)
      [] name = "documentation build" -> DoxygenGate(s, tools)
      [] name = "tests" -> TestsPass(s)
      [] OTHER -> name \notin s.stale

-----------------------------------------------------------------------------
NoRun == [mode |-> "none", skip |-> FALSE, early |-> FALSE, keep |-> FALSE,
          phase |-> "ended", step |-> 1, failed |-> FALSE, todo |-> {}, quiet |-> TRUE,
          verdict |-> "none", found |-> NoArchive]

NoMaint == [cmd |-> "none", phase |-> "idle", measured |-> Absent]

\* What an earlier release of the source s left: its archive, or a kept staging tree.
Former(s) ==
    [state |-> "whole",
     content |-> [d \in Directories |->
         CASE d \in Upstream -> s.tree[d] \ Pruned
           [] d = "learning" -> Seeds
           [] d = "documents" -> s.tree[d]],
     manifest |-> [d \in Directories |-> IF d \in Upstream THEN s.tree[d] \ Skipped ELSE {}]]

\* A release went out only of a tree that passed its checks.
ASSUME FormerAssumption ==
    /\ RequiredPresent(Recorded.tree) /\ RequirementsClosed(Recorded.tree)
    /\ Stops(Former(Recorded).content) = {}

\* No measured baseline is the mark of a missing file.
ASSUME AbsentAssumption ==
    \A s, t, u, v \in Sources : Absent \notin {MeasuredLint(s), MeasuredDiscrimination(s, t, u, v)}

Kept(s) == [content |-> Former(s).content, manifest |-> Former(s).manifest]

Init ==
    /\ src \in Sources /\ alive \in Hosts
    /\ base = [lint |-> MeasuredLint(Recorded), docs |-> MeasuredDocs(Recorded),
               disc |-> MeasuredDiscrimination(Recorded, Recorded, Recorded, Recorded)]
    /\ maint = NoMaint /\ run = NoRun
    /\ \/ staging = Unstaged /\ dist = NoArchive
       \/ staging = Kept(Recorded) /\ dist = Former(Recorded)
    /\ spent = [edits |-> 0, updates |-> 0, runs |-> 0]

Running == run.phase # "ended"
At(phase) == run.phase = phase

\* The run goes on at phase p, or ends with verdict v.
To(p) == run' = [run EXCEPT !.phase = p]
Ended(r, v) == [r EXCEPT !.phase = "ended", !.verdict = v]

\* main's finally clause: the staging tree goes unless it was asked for.
CleanUp == staging' = IF run.keep THEN staging ELSE Unstaged
Stage(content, manifest) == staging' = [content |-> content, manifest |-> manifest]
Refuse(v) == run' = Ended(run, v) /\ CleanUp

(***************************************************************************)
(* gate.main and release.main: flag is --fail-fast or --skip-gate.         *)
(***************************************************************************)
Begun(mode, flag, keep) ==
    [mode |-> mode, skip |-> mode = "release" /\ flag, early |-> mode = "gate" /\ flag,
     keep |-> keep, phase |-> IF mode = "release" /\ flag THEN "staging" ELSE "gate",
     step |-> 1, failed |-> FALSE, todo |-> {}, quiet |-> maint = NoMaint,
     verdict |-> "running", found |-> dist]

Start ==
    /\ ~Running /\ spent.runs < MaxRuns
    /\ \E mode \in {"gate", "release"}, flag, keep \in BOOLEAN :
          /\ mode = "gate" => ~keep
          /\ run' = Begun(mode, flag, keep)
    /\ spent' = [spent EXCEPT !.runs = @ + 1]
    /\ UNCHANGED <<src, base, alive, maint, staging, dist>>

\* gate.run and run_gate: a failed step is remembered, the others still run.
GateVerdict(r) ==
    IF r.mode = "gate" THEN Ended(r, IF r.failed THEN "failed" ELSE "ok")
    ELSE IF r.failed THEN Ended(r, "failed")
    ELSE [r EXCEPT !.phase = "staging"]

\* Mutant: only the last step's exit status is looked at.
Judged_last(r, passed) ==
    LET s == [r EXCEPT !.failed = ~passed, !.step = @ + 1]
    IN  IF s.step > Len(GATE) \/ (s.early /\ ~passed) THEN GateVerdict(s) ELSE s

Judged(r, passed) ==
    LET s == [r EXCEPT !.failed = r.failed \/ ~passed, !.step = r.step + 1]
    IN  IF s.step > Len(GATE) \/ (s.early /\ ~passed) THEN GateVerdict(s) ELSE s

RunStep ==
    /\ At("gate")
    /\ run' = Judged(run, StepPasses(GATE[run.step], src, base, alive))
    /\ UNCHANGED <<src, base, alive, maint, staging, dist, spent>>

\* Mutant: the half hour is up and the step is waited for again.
TimeOut_retries ==
    /\ At("hung") /\ run.mode = "gate"
    /\ run' = [run EXCEPT !.phase = "gate"]
    /\ UNCHANGED <<src, base, alive, maint, staging, dist, spent>>

\* A step hangs.  gate.py gives it half an hour and dies of it; release.py waits.
Hang ==
    /\ At("gate") /\ To("hung")
    /\ UNCHANGED <<src, base, alive, maint, staging, dist, spent>>

TimeOut ==
    /\ At("hung") /\ run.mode = "gate"
    /\ run' = Ended(run, "error")
    /\ UNCHANGED <<src, base, alive, maint, staging, dist, spent>>

-----------------------------------------------------------------------------
(***************************************************************************)
(* stage: a staging tree left behind is removed, then vendor.install.      *)
(***************************************************************************)
\* Mutant: the archive is opened before anything is known to be shippable.
Prepare_opens ==
    /\ At("staging")
    /\ staging' = Unstaged
    /\ run' = [run EXCEPT !.phase = "install", !.todo = Upstream]
    /\ dist' = [NoArchive EXCEPT !.state = "torn"]
    /\ UNCHANGED <<src, base, alive, maint, spent>>

Prepare ==
    /\ At("staging")
    /\ staging' = Unstaged
    /\ run' = [run EXCEPT !.phase = "install", !.todo = Upstream]
    /\ UNCHANGED <<src, base, alive, maint, dist, spent>>

InstallDirectory ==
    /\ At("install")
    /\ \E d \in run.todo :
          /\ Stage([staging.content EXCEPT ![d] = src.tree[d] \ Skipped], staging.manifest)
          /\ run' = [run EXCEPT !.todo = @ \ {d},
                        !.phase = IF run.todo = {d} THEN "seed" ELSE "install"]
    /\ UNCHANGED <<src, base, alive, maint, dist, spent>>

SeedLedger ==
    /\ At("seed")
    /\ Stage([staging.content EXCEPT !["learning"] = src.tree["learning"] \cap Seeds],
             [d \in Directories |-> IF d \in Upstream THEN staging.content[d] ELSE {}])
    /\ To("prune")
    /\ UNCHANGED <<src, base, alive, maint, dist, spent>>

\* Mutant: only what the installer skips anyway is removed.
WithoutPruned_caches(content) == [d \in Directories |-> content[d] \ Skipped]

WithoutPruned(content) == [d \in Directories |-> content[d] \ Pruned]

Prune ==
    /\ At("prune")
    /\ Stage(WithoutPruned(staging.content), staging.manifest)
    /\ To("ledger")
    /\ UNCHANGED <<src, base, alive, maint, dist, spent>>

CheckLedger ==
    /\ At("ledger")
    /\ IF LedgerEmpty(staging.content) THEN To("documents") /\ UNCHANGED staging
       ELSE Refuse("refused")
    /\ UNCHANGED <<src, base, alive, maint, dist, spent>>

\* Mutant: the documents the archive requires are copied, the others are not.
CopyDocuments_required ==
    /\ At("documents")
    /\ IF "guide" \in src.tree["documents"]
       THEN /\ Stage([staging.content EXCEPT !["documents"] = {"guide"}], staging.manifest)
            /\ To("members")
       ELSE Refuse("refused")
    /\ UNCHANGED <<src, base, alive, maint, dist, spent>>

\* copy_documents reads the live tree once more.
CopyDocuments ==
    /\ At("documents")
    /\ IF "guide" \in src.tree["documents"]
       THEN /\ Stage([staging.content EXCEPT !["documents"] = src.tree["documents"]], staging.manifest)
            /\ To("members")
       ELSE Refuse("refused")
    /\ UNCHANGED <<src, base, alive, maint, dist, spent>>

CheckMembers ==
    /\ At("members")
    /\ IF RequiredPresent(staging.content) /\ RequirementsClosed(staging.content)
       THEN To("scan") /\ UNCHANGED staging
       ELSE Refuse("refused")
    /\ UNCHANGED <<src, base, alive, maint, dist, spent>>

ScanTree ==
    /\ At("scan")
    /\ IF Stops(staging.content) = {} THEN To("truncate") /\ UNCHANGED staging
       ELSE Refuse("refused")
    /\ UNCHANGED <<src, base, alive, maint, dist, spent>>

\* write_archive opens the final name for writing and fills it.
Truncate ==
    /\ At("truncate")
    /\ dist' = [NoArchive EXCEPT !.state = "torn"]
    /\ To("write")
    /\ UNCHANGED <<src, base, alive, maint, staging, spent>>

WriteArchive ==
    /\ At("write")
    /\ dist' = [state |-> "whole", content |-> staging.content, manifest |-> staging.manifest]
    /\ run' = Ended(run, "ok")
    /\ CleanUp
    /\ UNCHANGED <<src, base, alive, maint, spent>>

Staging == {"install", "seed", "prune", "ledger", "documents", "members", "scan", "truncate",
            "write"}

\* An exception: main calls a missing file a refusal (once the archive is open only
\* the staging tree is read, which is the run's own) and translates no other error.
Fail ==
    /\ run.phase \in Staging
    /\ \/ Refuse("error")
       \/ ~At("write") /\ Refuse("refused")
    /\ UNCHANGED <<src, base, alive, maint, dist, spent>>

\* A kill: nothing is cleaned up.
Kill ==
    /\ Running
    /\ run' = Ended(run, "killed")
    /\ UNCHANGED <<src, base, alive, maint, staging, dist, spent>>

-----------------------------------------------------------------------------
(***************************************************************************)
(* The commands that move a baseline: they measure the tree, then write    *)
(* the file in place.                                                      *)
(***************************************************************************)
Baselines == {"lint", "docs", "disc"}

Noticed == run' = [run EXCEPT !.quiet = FALSE]

\* A command begins, with what it holds at its first phase.
Begins(cmd, phase, measured) ==
    /\ maint.phase = "idle" /\ spent.updates < MaxUpdates
    /\ maint' = [cmd |-> cmd, phase |-> phase, measured |-> measured]
    /\ spent' = [spent EXCEPT !.updates = @ + 1]
    /\ Noticed
    /\ UNCHANGED <<src, base, alive, staging, dist>>

MeasureLint == LintUpdatable(src, alive) /\ Begins("lint", "write", MeasuredLint(src))

MeasureDocs ==
    \/ Begins("docs", "write", MeasuredDocs(src))
    \/ /\ base.docs \notin {Absent, Torn}
       /\ \E f \in Files : src.shape[f] # "none"
                             /\ Begins("docs", "write", RerecordedDocs(src, base.docs, f))

\* Mutant: the floor moves while a declared mutation is broken.
RunMatrix_broken == base.disc # Torn /\ Begins("disc", "witnesses", <<src>>)

(***************************************************************************)
(* discrimination_gate --update-baseline imports and runs the mutations of *)
(* one tree; what it reads afterwards may be of others, kept in measured.  *)
(***************************************************************************)
RunMatrix ==
    base.disc # Torn /\ DiscriminationRun(src) /\ Begins("disc", "witnesses", <<src>>)

ReadsOn(phase, measured) ==
    /\ maint' = [cmd |-> "disc", phase |-> phase, measured |-> measured]
    /\ UNCHANGED <<src, base, alive, run, staging, dist, spent>>

\* resolved_strategy_witnesses: an entry that cannot be resolved ends the command.
ReadWitnesses ==
    /\ maint.phase = "witnesses"
    /\ LET read == maint.measured
       IN  IF WitnessesResolve(read[1].entries, src.automated)
           THEN ReadsOn("strategies", <<read[1], src>>)
           ELSE maint' = NoMaint /\ UNCHANGED <<src, base, alive, run, staging, dist, spent>>

\* undiscriminated_strategies reads the registry again.
ReadStrategies ==
    /\ maint.phase = "strategies"
    /\ LET read == maint.measured
       IN  ReadsOn("gap", <<read[1], read[2], src>>)

\* undiscriminated reads the corpus.
ReadCorpus ==
    /\ maint.phase = "gap"
    /\ LET read == maint.measured
       IN  ReadsOn("write", MeasuredDiscrimination(read[1], read[2], read[3], src))

EmptyBaseline ==
    /\ maint.phase = "write"
    /\ base' = [base EXCEPT ![maint.cmd] = Torn]
    /\ maint' = [maint EXCEPT !.phase = "fill"]
    /\ Noticed
    /\ UNCHANGED <<src, alive, staging, dist, spent>>

FillBaseline ==
    /\ maint.phase = "fill"
    /\ base' = [base EXCEPT ![maint.cmd] = maint.measured]
    /\ maint' = NoMaint
    /\ Noticed
    /\ UNCHANGED <<src, alive, staging, dist, spent>>

KillMaint ==
    /\ maint # NoMaint
    /\ maint' = NoMaint
    /\ UNCHANGED <<src, base, alive, run, staging, dist, spent>>

Edit ==
    /\ spent.edits < MaxEdits
    /\ src' \in Sources \ {src}
    /\ spent' = [spent EXCEPT !.edits = @ + 1]
    /\ Noticed
    /\ UNCHANGED <<base, alive, maint, staging, dist>>

GateStep == RunStep \/ TimeOut
BuildStep ==
    \/ Prepare \/ InstallDirectory \/ SeedLedger \/ Prune \/ CheckLedger \/ CopyDocuments
    \/ CheckMembers \/ ScanTree \/ Truncate \/ WriteArchive
MaintStep ==
    \/ MeasureLint \/ MeasureDocs \/ RunMatrix \/ ReadWitnesses \/ ReadStrategies \/ ReadCorpus
    \/ EmptyBaseline \/ FillBaseline

Next ==
    \/ Start \/ GateStep \/ Hang \/ BuildStep \/ Fail \/ Kill
    \/ MaintStep \/ KillMaint \/ Edit

Spec == Init /\ [][Next]_vars /\ WF_vars(GateStep) /\ WF_vars(BuildStep)

-----------------------------------------------------------------------------
Phases == {"ended", "gate", "hung", "staging"} \cup Staging
Archives == [state : {"none", "torn", "whole"}, content : Content, manifest : Content]
Stagings == [content : Content, manifest : Content]
Verdicts == {"none", "running", "ok", "failed", "refused", "error", "killed"}
Runs == [mode : {"none", "gate", "release"}, skip : BOOLEAN, early : BOOLEAN, keep : BOOLEAN,
         phase : Phases, step : 1..(Len(GATE) + 1), failed : BOOLEAN, todo : SUBSET Upstream,
         quiet : BOOLEAN, verdict : Verdicts, found : Archives]

\* Every variable keeps its shape.
TypeOK ==
    /\ src \in Sources /\ alive \in Hosts
    /\ base = [lint |-> base.lint, docs |-> base.docs, disc |-> base.disc]
    /\ maint = [cmd |-> maint.cmd, phase |-> maint.phase, measured |-> maint.measured]
    /\ maint.cmd \in IF maint.phase = "idle" THEN {"none"} ELSE Baselines
    /\ maint.phase \in {"idle", "witnesses", "strategies", "gap", "write", "fill"}
    /\ run \in Runs
    /\ run.phase = "ended" <=> run.verdict # "running"
    /\ run.phase \in {"gate", "hung"} => run.step \in 1..Len(GATE)
    /\ staging \in Stagings
    /\ dist \in Archives
    /\ spent \in [edits : 0..MaxEdits, updates : 0..MaxUpdates, runs : 0..MaxRuns]

(***************************************************************************)
(* Whatever was edited, skipped or killed meanwhile, an archive that is    *)
(* whole holds nothing blocking, nothing of the ledger but its seeds, no   *)
(* product of a build, all it needs to be integrated, and the manifest     *)
(* describes its upstream half except for what was pruned after the        *)
(* installer had recorded it.                                              *)
(***************************************************************************)
WhatShipsWasChecked ==
    dist.state = "whole" =>
        LET c == dist.content IN
        /\ \A d \in Directories : "leak" \notin c[d]
        /\ \A d \in Upstream \cup {"learning"} : c[d] \cap {"cache", "product"} = {}
        /\ "note" \notin c["learning"] /\ "seed" \in c["learning"]
        /\ "required" \in c["discipline"] /\ "pins" \in c["tools"]
        /\ "guide" \in c["documents"]
        /\ \A d \in Upstream : c[d] = dist.manifest[d] \ {"product"}

(***************************************************************************)
(* What the gate is for, of a source s under the baselines b: nothing      *)
(* protected and nothing unrecorded is reported; every recorded file has   *)
(* its recorded code and, unless its checkers died unnoticed, documented;  *)
(* every declared mutation still applies and is rejected by a mechanism    *)
(* that is silent without the damage; as many rules as recorded have one.  *)
(* The credit is not earned of a mutation over the reference package that  *)
(* names a test pytest cannot find: fails_against takes its exit status    *)
(* for a rejection, and no step runs that test.                            *)
(***************************************************************************)
CreditEarned(s) ==
    \A e \in s.entries :
        /\ ~e.drifted
        /\ e.kind # "node" \/ e.known => e.rejects /\ (e.kind # "proof" => e.clean)
        /\ e.kind \in {"repository", "proof"} => e.known

Promised(s, b) ==
    /\ \A p \in Pairs : s.findings[p] > 0 => p.code \notin PROTECTED /\ p \in b.lint.pairs
    /\ CountOf(s) <= b.lint.count
    /\ \A f \in Files : s.shape[f] \in {"none", b.docs[f]} \/ b.docs[f] = "none"
    /\ s.documented \/ "checkers" \notin alive
    /\ CreditEarned(s)
    /\ Cardinality({e.rule : e \in s.entries}) >= b.disc.count
    /\ s.stale = {} /\ s.suite /\ ~s.broken /\ s.typed

(***************************************************************************)
(* A run that says ok over a tree and baselines nobody touched meanwhile   *)
(* says so of a tree that keeps those promises.  No step shows this alone: *)
(* the discrimination step credits a test for failing over damage it would *)
(* fail without, and only the last step runs the test undamaged.           *)
(***************************************************************************)
OkIsEarned ==
    run.verdict = "ok" /\ ~run.skip /\ run.quiet => Promised(src, base)

\* What a release over the tree s has to contain.
Shipped(s) ==
    [d \in Directories |->
        CASE d \in Upstream -> s.tree[d] \ {"cache", "product"}
          [] d = "learning" -> {"seed"}
          [] d = "documents" -> s.tree["documents"]]

(***************************************************************************)
(* The archive of an undisturbed release is the whole of the certified     *)
(* tree, whatever an earlier run left in the staging directory.            *)
(***************************************************************************)
CertifiedShips ==
    run.mode = "release" /\ run.verdict = "ok" /\ run.quiet =>
        dist.state = "whole" /\ dist.content = Shipped(src)

(***************************************************************************)
(* A release that is refused, by the gate or by its own checks, leaves the *)
(* archive it found.                                                       *)
(***************************************************************************)
RefusalKeepsArchive ==
    run.verdict \in {"failed", "refused"} => dist = run.found

(***************************************************************************)
(* A baseline on disk was measured: a lint baseline on one tree without a  *)
(* protected code; a discrimination baseline from one tree whose mutations *)
(* all provoked their rules, with the strategies those very mutations mean *)
(* in a registry that gives each a meaning.  Edits while the command runs  *)
(* may make its gaps those of later trees; neither they nor a kill makes   *)
(* it record a number that was never counted.                              *)
(***************************************************************************)
LintCeilings == {MeasuredLint(s) : s \in {s \in Sources : Protected(PairsOf(s)) = {}}}

Resolving ==
    {r \in Sources \X Sources :
        DiscriminationRun(r[1]) /\ WitnessesResolve(r[1].entries, r[2].automated)}
DiscCeilings ==
    {MeasuredDiscrimination(r[1], r[2], u, v) : r \in Resolving, u \in Sources, v \in Sources}

CeilingsWereMeasured == base.lint \in LintCeilings \cup {Torn} /\ base.disc \in DiscCeilings \cup {Torn}

\* gate.py ends, however a step hangs; release.py gives its steps no limit.
GateEnds == (run.mode = "gate" /\ Running) ~> ~Running

=============================================================================
