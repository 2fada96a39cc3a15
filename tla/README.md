# Python Engineering Discipline, in TLA+

The repository is a discipline for Python projects and the programs that carry it: a database of
what sessions learned, an installer that copies the discipline into an adopting project, an
integrator that announces it in files the project owns, migrations of the project's declaration,
the gate that judges an adopting project, and on the maintainer's side the generators, the validator
and the navigator of the rule corpus, the gates with their baselines, and the release builder. Almost
all of that code is command lines that read and rewrite *shared files*. None holds a lock across a whole command, any of them may be killed between two
writes, and several sessions, clones and releases meet in the same directory. That, and not
any single algorithm, is what is hard to get right and hard to test here, and it is what these
modules model.

Contents: [the system](#1-the-system) · [the modules](#2-the-modules) · [the runs](#3-the-runs) ·
[the proofs](#4-the-proofs) · [where code and documents part](#5-where-code-and-documents-part) ·
[what is left out](#6-what-is-left-out) · [the plan](#7-the-plan) · [how to run](#8-how-to-run-it)

## 1. The system

Paths are relative to `src/`. "Properties" are those that make the component correct, whether or not
they are checked yet.

| component | state | operations | what is hard | properties |
|---|---|---|---|---|
| **learning database**, `tools/learn.py`, `learning/schema.sql` | `ledger.jsonl` (append-only truth), `config.toml` (dials), `learning.db` (derived index), `INDEX.md`, `calibration.md` (derived views) | `record`, `used`, `refute`, `supersede`, `promote`, `session`, `calibrate [--set]`, `verify`, `sync`, queries | overlapping commands, kills, merges of two clones, a text-sorted id, stale reads, config read once per event | commits are folds of ledger prefixes and never go back; success implies agreement; tables agree; retirement is final; the order of feedback decides no status |
| **vendor install**, `tools/vendor.py` | `.agent/` (upstream half, project half), `MANIFEST.json` | `install [--force]`, `check` | half-done trees, a source that moves, a project at work, directories that exist but are empty | project half never overwritten; an undisturbed install converges; nothing retired survives |
| **integration**, `tools/integrate.py` | markdown with a managed block, skill files, `settings.json`, `.gitignore`, `integration-record.json` | apply, `--remove`, `--only`, `--check` | ownership known only to the record, which is written last; upgrades; hand edits | what the project put there survives; remove restores; install is idempotent |
| **declaration migrations**, `tools/migrate_v4.py`, `tools/migrate_v5.py` | `pyproject.toml`, documentation model, Doxyfile | plan, preview, `--apply` | plan, check and write are separate; runs overlap and die | refusal writes nothing; declaration last; project bytes survive; convergence |
| **project gate**, `tools/project_gate.py` | the declaration (read three times), ten adapters' outcomes, a scratch directory, a report | describe, digest; per adapter probe, look the tool up, execute, evaluate; report | tools that hang, disappear or find nothing to do; a repository edited under the gate; a killed build whose children go on | a green outcome is earned over the bytes the step judged; the report of an undisturbed run is true; the file and the exit status agree; a run ends |
| **mutation gate**, `tools/mutation_gate.py` | an isolated copy, the engine's session, counters | load, scan, copy; per domain baseline, inventory, exec, judge, score | it reads declaration and tree again, later than its parent; the engine drops, delays or mangles work items | no survivor and no unrun mutant passes for a killed one |
| **release builder**, `tools/release.py`, `tools/gate.py` | a staging directory, an archive | gate, stage (through `vendor.install`), ledger, prune, members, requirements, scan, write | what was certified is read again later; a step hangs; the archive is written in place | what ships was checked; a certified tree ships whole; a refusal keeps the archive |
| **maintainer gates and baselines**, `tools/{lint,doc,import,type,doxygen,discrimination}_gate.py`, `enforce/discrimination.py` | committed baselines | judge, `--update-baseline` | a dead checker looks like a clean tree; a ratchet moved by a half-finished measurement | ok is earned; every ceiling on disk was measured |
| **corpus and validator**, `tools/discipline_core.py`, `tools/validate.py` | none; the unbuilt-mechanism ceiling | parse, some forty checks, `--update-baseline` | headings that only nearly parse; two classifications of the same rule | a passing corpus can be rebuilt and its two classifications agree |
| **evidence model**, `tools/evidence_model.py` | none | parse a record, disagreements, verification state | a record that parses as the wrong family | states follow from record and heading |
| **generated artifacts**, `tools/build_index.py`, `build_graph.py`, `build_provenance.py`, `extract_sources.py`, `build_skill_mirror.py` | token counts inside the documents, `INDEX.md`, `rules.json`, `ENFORCEMENT.md`, `graph.json`, census, `PROVENANCE.md`, claims, mirrors | build, `--check` | outputs that are inputs of the next; kills between and inside files; an editor meanwhile | all checks green means nothing is stale; rebuilding converges |
| **rule navigator**, `tools/nav.py`, `tools/graph_model.py` | reads `graph.json`, `rules.json`, the documents | `context`, `diagnose`, `neighbors`, `path` and five more | three files of three generations; traversal bounds, budgets, cycles | answers are exact with respect to the files read; nothing of an envelope is lost |
| **learning retrieval**, `tools/learn.py` | none of its own | ranking, calibration weights | ties, thresholds | deterministic, bounded answers |
| **prune, reference package**, `enforce/fixtures/reference/src/refpkg` | a store of entries | survey, plan, apply | store changes between plan and apply | only planned and unchanged entries go |
| **aggregate checks**, `enforce/checks/` | none | predicates over syntax trees and declared models | breadth, not order | each is its own specification |
| **corpus, prose, containers** | — | — | — | not code |

How they meet: `vendor.py` puts the tools into `.agent/`; `integrate.py`, run from there, points the
project's agents at them; `migrate_v5.py` brings the project's declaration to the release that
`project_gate.py` then judges, running `mutation_gate.py` as one of its steps; sessions call `learn.py`,
whose files live in the project half that `vendor.py` must never touch. On the maintainer's side the corpus
is edited by hand, the generators derive files from it (one of which, `PROVENANCE.md`, is itself a document
of the corpus), the validator and the generators' own checks judge them, `nav.py` answers from them,
`gate.py` runs all the judges against committed baselines, and `release.py` runs `gate.py` and then builds
the archive that `vendor.py` installs from. All of that communication goes through files.

`PROJECT.json` lists every component with its status, and under `hazards` forty places where this
code can go wrong in a way a unit test would hardly reach, each with the properties that watch it or
the reason why none does.

## 2. The modules

| module | models | extends / uses |
|---|---|---|
| `LearnFold` | `_apply` and its helpers: what one event does to the tables `learning` and `usage`; id allocation | — |
| `LearnLog` | abstract specification of the learning database: a log of events numbered by position, with its projection | `LearnFold` |
| `LearnStore` | `learn.py` as processes over five shared files and SQLite's write lock | `LearnFold`; `INSTANCE LearnLog` |
| `Vendor` | `install` as a killable sequence of removals, copies and writes; `check` | — |
| `Integrate` | plan, then apply file by file, then the record | — |
| `Migrate` | both migrations, run by any number of command lines | — |
| `GateProbes` | what each step of the project gate demands of a declaration, a tree and a tool's answer | — |
| `MutationGate` | the mutation step's own process, one action per stage | `GateProbes` |
| `ProjectGate` | one run of the gate, its steps, its kills, the edits around it | `MutationGate` |
| `Ratchets` | verdicts and baselines of the maintainer's gates, as operators | — |
| `Release` | `gate.py`, `release.py` and the commands that move baselines, over a live source | `Ratchets` |
| `Corpus`, `Evidence` | documents, headings and mechanisms; evidence records and states | — ; `Corpus` |
| `RuleGraph`, `GraphBuilder` | nodes, edges, traversals; the graph of a corpus | — ; `Evidence`, `RuleGraph` |
| `Validator` | the findings of `validate.py` as a set | `GraphBuilder` |
| `Artifacts` | the generators and the validator as killable commands over files | `Validator` |
| `Navigation`, `Navigator` | one operator per command of `nav.py`; its invocations over files of several generations | `GraphBuilder`; `Navigation` |
| `SampleCorpus` | short notation for documents and records of the instances | `Evidence` |
| `MC…` | instances for TLC | the module named |
| `LearnLogProofs` (with the lemmas about `LearnFold`), `LearnStoreProofs`, `VendorProofs`, `IntegrateProofs`, `MigrateProofs`, `ProjectGateProofs`, `ReleaseProofs`, `ArtifactsProofs` | theorems | the module named, `TLAPS` |

Operators whose name ends in what they do wrong (`AppendLineUnsynced`, `ListDir_noRmtree`,
`Refused_countOnly` …) are deliberately faulty variants of the definition that follows them. No
specification uses them. Each stands for a plausible slip in the code, and each is caught by the
property it was written against: that is how we know the properties can fail. Every module with
variables states a type invariant; it is a property of run `log`, and of the others it is part of
what is proved, or was checked while the module was written.

### Learning database

`LearnFold` keeps of an entry what status and confidence depend on: its status, the counters, whether
it carries a verification command, the confidence in hundredths, the event that made it. Claims,
actions, triggers and timestamps are dropped. `ApplyLearn` includes the `ON DELETE CASCADE` of
`schema.sql`; `NextLearningId` includes that `MAX(id)` compares *text*, so an id one digit longer than
the padding sorts before `L-9999` (`TextLeq`). `Refused` is the pair of constraints that make SQLite
stop a fold: the primary key on `event.seq` and the `CHECK` on the verb.

`LearnLog` is the promise: a sequence of events numbered by position, ids fresh, and the tables always
the fold of the log.

`LearnStore` is the program. A process is a command line; a step is what the operating system or
SQLite makes atomic: one read of a file, one write, one committed transaction.

| state | code |
|---|---|
| `ledger`, `config`, `index`, `calibration` | the files; `None` while a rewrite has truncated one |
| `db` | the last committed content of `learning.db` |
| `lock` | SQLite's write lock |
| `proc[p].pc` | where the command is |
| `proc[p].snap`, `.work` | the ledger text `sync` read, the tables inside its open transaction |
| `acked` | history: the events of commands that reported success |

`sync` (`BeginSync`, `FoldOne`, `FoldFails`, `Commit`) takes the lock with its first `DELETE`, reads the
ledger *after* that, and folds event by event because the dials are read again for every event.
`append_event` is two steps, counting lines and writing one (`CountLedger`, `AppendLine`), so two
appenders may take the same number. `write_views` truncates and writes each view (`EmptyIndex`,
`WriteIndex`, …). `calibrate --set` truncates and rewrites the configuration before it appends its
event. `Crash` ends a command anywhere and rolls an open transaction back. `Pull` is a git merge that
keeps both sides of a ledger: a line numbered by the other clone lands behind ours.

### Vendor

One step per file removed, copied or written. `ListDir` fixes the files to copy on entering a
directory; `Crash` may leave the file in hand or the manifest torn. Meanwhile `Release` moves the source to
another corpus and the project edits either half, makes or drops its directories. `kept`
is a history variable: the project files in place since the install began. `run.steady` says nobody else changed anything since the install began. A digest
stands for the content it was computed from. `InStep` is the verdict of `check`.

### Integrate

The plan is computed once, at `Start`, from all files (`build_plan`), then applied file by file
(`Apply`), the record last; `Kill` stops in between and may damage the record, which the program
treats as no record. A markdown file is the number of newlines in front of the block and the release
the block names; a list file is the set of its entries and a header. `native` is the history variable
the properties are about: what the project itself put there. `whole` says that no invocation so far
was killed or partial. Edits happen between invocations only: inside one, between the plan and
the writes (`integrate.py:1266`), the code is known to lose them.

### Migrate

A declaration is abstracted to what the two planners look at: which fields of release 4 it has
(`FieldStages`: none, only release 3's, a part, the scalar ones, all), whether release 5's fields are
there, the source roots, and everything else (`other`, changed only by the project). An artifact is
generated from given roots or the project's own. The source tree is kept only as far as it decides a
plan. A run reads (`ReadProject4`, `InferRoles4`, or `ReadProject5` and one `ReadArtifact` per
artifact), previews or begins to apply, compares the guarded files one at a time (`Check`), then
replaces the changed ones one at a time (`Publish`, `_atomic_write`). `Die` is a kill or a failed read
or write. `moved` is history: the files somebody else changed after this run had compared them, that is,
the window the code leaves open.

### Project gate and mutation gate

A *declaration* stands for the bytes of one `pyproject.toml`: whether they parse, which of the fields the
probes ask for they hold, the domain paths, the identity. A *tree* stands for everything else: for which
steps the configured targets exist, for which the tool finds nothing and for which it examined something, the
`Doxyfile`, and the fate the tests give each mutant. The tools themselves are external: what they answer
follows from the tree and from the declaration *they* read.

| state | code |
|---|---|
| `ctx` | `GateContext`, with the three reads of `_load_context` apart |
| `phase`, `outcome` | how far `run()` is; the `StepResult`s so far, each with the bytes probed and judged (history) |
| `scratch` | the copy `artifact-build` makes, and how many artifacts lie in its output directory |
| `child` | the mutation process: its phase, the declaration it loaded, its copy, the domains left, the work items |
| `evidence`, `verdict` | the file at `--json`; the exit status, or `lost` |

`Describe`, `ReadDocument` and `TakeDigest` read the declaration one after the other. Each adapter is then a
probe (`Preparation`, `ScanSources`, `PrepareInstall`) followed by an execution (`RunTool`, `Build`,
`Install`, or the child's `Load` … `Score`), and edits fall in between. `Overrun` and `KillMutation` are
timeouts; `OrphanDelivers` is a child of a killed build that finishes after all; `Lose` is an exception no
adapter translates. The engine may fail, or mark, leave or drop work items (`Execute`).

### Release and ratchets

Content is a set of items per directory, named for how the program treats them (`leak`, `cache`, `product`,
`seed`, `note`, `required`, `pins`, `guide`). `Ratchets` gives the verdict of every gate step over a source
and the baselines; `Release` runs them (`RunStep`, `Hang`, `TimeOut`), then installs one directory at a time,
prunes, checks, scans and writes (`InstallDirectory` … `WriteArchive`), always from the *live* source. An update of a
baseline measures and writes in separate steps and may be killed in between. That of the discrimination gate reads four times:
`RunMatrix` is the table of mutations, imported when the process starts, and their run (one step: the runs of single mutations are not
interleaved with edits), then `ReadWitnesses` and `ReadStrategies` read the registry and `ReadCorpus` the rules, each of the tree as it is by then;
`measured` holds what was read so far. `Fail` is an exception: `release.py:895` calls a missing file a refusal, any other goes through uncaught. `quiet` is history: neither
source nor baselines nor tools changed since the run began; `found` is the archive the run found.

### Corpus, artifacts and navigator

A document keeps its front matter, the rule headings with their fields, its length and the words the checks look
for; a derived file is the value its text shows, so that two renderings are equal exactly when these values are.
`Artifacts` runs one generator after another, each in its write or its check mode: it reads, computes, and writes one file at a time
(`RefreshTokens`, `WriteFile`, `CopyTarget`), may be killed leaving the file old, whole or torn, and an
editor may save a document, a registry, a source or a skill file at any point. `green` is history: the checks that
passed since anything changed.

`Navigator` is one invocation: load the graph, parse the documents (`diagnose` only), annotate with the
states of `rules.json`. The editor and `build` may act between any two. `Navigation` is what the commands compute.
The properties compare its breadth-first and depth-first searches with walks defined by edges alone
(`WalksTo`), and its reading plan with the budget.

## 3. The runs

All passing runs finish within three minutes on two workers. Deadlock is checked in the runs of the learning database's store,
`vendor`, `integrate` and `migrate`; `log` stops once the log has `MaxLog` events, and `project_gate`, `release`,
`artifacts` and `navigator` stop when the runs and edits they are allowed are used up.

| run | instance | distinct states | shows |
|---|---|---|---|
| `log` | 2 sessions, 2 ids, every kind of event, 4 events | 67 thousand | the tables agree, confidence stays within `[floor, ceiling]`, the order of feedback decides no status, retired is for ever |
| `store_serial` | 1 process, 4 events, kills | 568 thousand | success means ledger, tables and views agree; `verify` refutes only what is live; the program implements `LearnLog` |
| `store_concurrent` | 2 processes, 2 events, kills, fairness | 277 thousand | commits are folds of ever longer prefixes and contain all acknowledged events; every command ends |
| `store_pull` | 1 process, merged lines, moving dials, 3 events | 1.4 million | the tables agree, duplicate numbers, duplicate ids and unknown verbs included |
| `vendor` | 7 paths, 2 upstream directories, 2 releases, forced and plain | 1.5 million | project half safe, convergence, no retired file survives, force restores seeds |
| `integrate` | 2 markdown files, 1 skill, 2 permissions, 1 ignored path, 3 releases, 2 edits | 2.7 million | the project's content survives, removal restores, install is its own fixed point |
| `migrate` | 2 command lines, 2 root lists, 1 edit, 208 starting projects | 1.1 million | refusal writes nothing, convergence, declaration last, project bytes survive |
| `project_gate` | 5 steps, 5 declarations, 6 trees, 3 machines, 2 domains of 2 mutants, 1 edit | 792 thousand | a green verdict is earned, an undisturbed report is true, the report file is complete, a run ends |
| `release` | 7 sources differing from a sound one in a few respects, 2 machines, 1 edit, 1 baseline update, 1 run | 772 thousand | what ships was checked, a certified tree ships whole, a refusal keeps the archive, ok and ceilings are earned, `gate.py` ends |
| `artifacts` | 5 documents with 5 rules, 1 edit, 1 kill, 1 moved ceiling, every command | 177 thousand | green checks mean nothing is stale, two rounds of the build settle, a passing corpus agrees with itself |
| `navigator` | 3 laws, a fact, a glossary; edited variants; 1 edit, 2 builds, questions for all nine commands | 15 thousand | context, plan, diagnosis, paths and cycles are exact |
| `store_two_records` | 2 overlapping `record`s | — | counterexample: see section 5 |

Why the bounds are enough for the questions asked:

* `LearnLog`'s dials are the shipped ones but for a `helped_delta` of 30, so that two outcomes reach the
  ceiling; four events suffice for record, two helped sessions (active), a retirement, or a re-recorded id
  with usage. `Limit` = 10000 is the code's.
* `LearnStore` with two processes has every overlap of append, fold, commit and rendering; a third
  process would only wait for the same lock. Two events are one per process. `Room` keeps a `verify`
  that may refute several entries within the bound.
* `Vendor` has a file of every kind: rewritten, retired, retired with its whole directory, a cache, a root
  file, a seed, an unseeded project file; one content per release and one for the project.
* `Integrate`'s first markdown text ends in a newline and the second does not, one permission is the
  project's own already, and the three releases ship a skill, another, and none. Two edits let a hand edit
  follow another.
* `Migrate` also holds with two edits (7.4 million states, four minutes); one edit per pair of runs already
  falls into every window.
* `ProjectGate` is given five of the ten steps, the parameter `run()` has for its tests: one of each shape (checks in
  process, a tool read live, a child with its own copy, a copy with an artifact, a consumer of it). The other tools share
  `Preparation` and `RunTool` with `documentation`. The five declarations and six trees each break one thing; one edit
  puts any two of them into one run. The proofs lift all of it.
* `Release`'s seven sources are a sound one and six that differ from it in findings, shapes, documents, mutations, rules or strategies, each
  so that some step of the gate, some check of the release or some reading of an update sees it; with one edit every pair of them meets, certified and shipped
  or measured and read later. A step that hangs may be any.
* `Artifacts`: up to two of an edit, a kill and a moved ceiling (`MaxUses`), anywhere between and within the commands; two rounds are eight
  commands. More edits between two checks repeat the case of one, since `green` is emptied by each.
* `Navigator`: one edit and two builds give graph, states and documents of three different generations; the corpora include an id that
  vanished, one that stands twice, a changed force and a cycle.

### Fairness

`store_concurrent` assumes `WF_vars(Step(p))` for every process, `project_gate` `WF_vars(GateStep)` and
`release` `WF_vars(GateStep) /\ WF_vars(BuildStep)`: the operating system keeps running a command that was
started. Starting commands, editing and killing are not fair. Nor is waiting assumed away:
`sqlite3.connect` gives up after five seconds (`BusyTimeout`), every subprocess of the project gate has a timeout
(`Overrun`, `KillMutation`), and `gate.py` gives each step 1800 seconds (`TimeOut`). `release.py` calls `gate.py` without one, and its
steps have none either, so `GateEnds` speaks of `gate.py` alone. The other components promise nothing eventually: a killed install,
build or migration waits for its user.

## 4. The proofs

TLAPS checks these for *every* value of the constants that meets the `ASSUME`s in the modules, any number of
processes, files, releases and edits included.

| module | theorem | property |
|---|---|---|
| `LearnLogProofs` | `FoldEmpty`, `FoldAppend`, `NextIdFresh` | what `Fold` and `NextLearningId` compute |
| | `TypeCorrect`, `UsageAlwaysAccounted`, `ConfidenceAlwaysBounded`, `OrderNeverMatters`, `RetiredStays` | the five properties of `LearnLog` |
| `LearnStoreProofs` | `AckedStaysCommitted`, `CommitsForward`, `TablesAlwaysAgree` | `AckedIsCommitted`, `CommitsNeverGoBack`, `DbTablesAgree` |
| | `CommitsAreFolds` (under `DialsFixed`) | `CommittedIsAFold` |
| | `SuccessAlwaysAgrees`, `RefutesOnlyLive` (under `Serial`) | `SuccessMeansAgreement`, `RefutesLiveOnly` |
| | `StoreImplementsLog`, `SerialEntriesNeverCollide`, `RetirementStaysFinal` (under `Serial` and `ShortLedger`) | `ImplementsLog`, `FreshEntriesNeverCollide`, and that no commit brings a retired entry back |
| `VendorProofs` | `TypeCorrect`, `ProjectHalfAlwaysSafe`, `InstallAlwaysConverges`, `NoRetiredEverSurvives`, `ForceAlwaysRestoresSeeds` | the five properties of `Vendor` |
| `IntegrateProofs` | `TypeCorrect`, `ProjectAlwaysSurvives`, `RemoveAlwaysRestores`, `InstallAlwaysIdempotent` | `TypeOK` and the three properties of `Integrate` |
| `MigrateProofs` | `TypeCorrect`, `RefusedAlwaysUntouched`, `MigrationAlwaysConverges`, `DeclarationAlwaysLast`, `ProjectBytesAlwaysSurvive` | the five properties of `Migrate` |
| `ProjectGateProofs` | `TypeCorrect`, `GreenAlwaysEarned`, `EvidenceAlwaysComplete`, `QuietReportAlwaysTrue` | `TypeOK` and the three invariants of `ProjectGate` |
| `ReleaseProofs` | `TypeCorrect`, `OnlyCheckedShips`, `CertifiedAlwaysShips`, `RefusalAlwaysKeepsArchive`, `OkAlwaysEarned`, `CeilingsAlwaysMeasured` | `TypeOK` and the five invariants of `Release` |
| `ArtifactsProofs` | `SpecIInv`, `ChecksSettle`, `RoundsSettle`, `PassingAgrees` | the inductive invariant and the three properties of `Artifacts` |

**LearnFold.** Two facts carry what follows about the learning database. `FoldAppend`: one more line in the ledger is one more event in
the tables, so a `sync` that rebuilds everything gives what folding the new event alone would have. `Fold` is a recursive
function on `0..Len(ledger)`: that the function exists (`FoldsExist`) and is the only one (`FoldsUnique`)
is shown by a least counterexample, since the library's induction theorems cannot be instantiated here (`SetInduction` is the form
used, over a set of numbers). `NextIdFresh`: the greatest id *as text* is one no id exceeds as a number, as long as all
are below `Limit`. The other lemmas say what one event does to the ids, the usage rows, the counters and the retired entries.

**LearnLog.** `LogTypeOK` and the agreement of the two tables are inductive together; the work is in the
cardinalities (`ApplyTables`), where one more usage row of an entry is one more in exactly one of its counters, and the cascade
removes exactly the rows of the entry that is replaced. `OrderIndifferent` compares the fold of the log with that of the log
in which two neighbouring events have changed places. One outcome and one other feedback event commute (`Commutes`) up to confidence,
because whatever touched a row last left its status decided anew from counters that are sums and sets (`RestatusSound`, kept by `ApplySound`); any event
after them keeps the two tables alike (`SameStep`); so the invariant is inductive over the log (`OrderStep`), the last pair by the
first fact, the earlier ones by the second. `ConfidenceBounded` needs
`CfgAssumption`: the base values lie within the bounds and floor is not above ceiling.

**LearnStore.** Four layers, each resting on the one before.

* `IInv` is about lengths: whoever folds holds the lock and nobody else does
  (`LockInv`); a reader under the lock has read at least as much as the database has applied (`ReadInv`);
  and how far a command's own events have got is visible from where it stands (`MineInv`): appended, read
  by its second `sync`, committed before it publishes. `ReadInv` is where the order inside `sync` matters:
  were the ledger read before the lock is taken, it would fail, and with it both theorems about overlapping commands.
* `TabInv` is about the tables inside an open transaction: every usage row has the number of an event already folded
  (`Accounted`), and no event is numbered past its position (`Numbered`). So an event whose number is new
  to the fold, and `Refused` stops the fold at any other, adds a usage row that was not there, which is what the counters
  rely on. It holds with dials that move, a truncated configuration and merged lines that repeat numbers, ids or verbs.
* `FoldInv` is about what the tables were folded from. `DialsFixed` says that no command of the menu is
  `calibrate --set`: after one, the dials differ from those earlier commits used, and the property is
  false (the dials are read again for every event, `learn.py:416`). Commands may overlap and lines arrive.
* `NowInv` and `LogInv` need `Serial`: one process, nothing merged, dials fixed. `NowInv` says that what the process has
  read is still so, from its read to its last use. `LogInv` says that every event has its position as its number, that the
  tables' ids are those recorded, each once, and that the id and the number a command holds are still free.
  `ShortLedger` (`MaxEvents <= Limit`) is what the text order needs: after `L-10000` ids do collide (hazard `learn.py:897`).
  The refinement then maps `AppendLine` to the abstract `Record` or `Feedback` and every other step to a stutter.

The hypotheses are not conveniences of the proof. Two overlapping `record`s break `SerialEntriesNeverCollide` (run
`store_two_records`), an overlapping command may rewrite a view between commit and success, and a second `record` of an id
replaces a row that was retired meanwhile, so that even `RetirementStaysFinal` fails with two processes. The runs that
check these properties have the same instance: one process, no merged lines, no `calibrate --set`.

**Vendor.** `IInv` is `TypeOK` with `WritesElsewhere`: what an install still has to write lies outside what has
been in place in the project half since it began. Without it a pending copy could be anything. The existence
test of a seed and its copy are two steps, and a file the project creates in between *is* overwritten: the
property speaks of files in place since the install began, and the window is the one at `vendor.py:296`.
The other three are about an install nobody disturbs. `SteadyInv` says, as long as that is so, what has been put in place
at each point: the directories below the one at hand hold what the source ships in them and nothing else, the one at hand that
but for the files still listed (`UpstreamInv`); the project directories below the one at hand exist, and the manifest about to be published is the
source's (`ScaffoldInv`); a forced install has every seed it has considered (`SeedInv`). Nothing is assumed of the target it starts from. It needs
that the directories of `UPSTREAM` are distinct: a second visit would clear what the first one copied, and copy it again.

**Migrate.** `IInv` is stated of one run and the files (`RunInv`): `PlanInv` says what a plan is, an
unchanged complete declaration, or a translation that moved only its release's fields, and artifacts created only
where none was; `GuardInv` says that a file the run has compared still holds what the plan was made from, what the run
itself has put there, or is known to have moved. A run's own step keeps its own `RunInv` (`OwnStep`), and
`SeeingInv` shows that whatever anyone else does to a file, another run or the project, keeps everybody's. The
convergence theorem then needs only that a plan applied in full satisfies its own planner (`AllPublished`), and
that a plan with nothing to do found nothing to do (`NothingToDo`).

**Integrate.** The invariant says of a state of all files, on disk or planned: what the project put there is in it
(`Kept`); as long as every invocation was complete, the separators on record are those in the files (`Long`)
and the files hold exactly the project's content and what the record says is ours (`Exact`). `RunInv` says the same of the plan,
that what was applied equals it, and what a removal or an install plans (`Restored`, `Installed`). It is the plan, not the files, that
carries the argument between `Start` and the last `Apply`: half-applied files satisfy `Kept` because each file alone does.
The order of the files is any: that the code writes the record last matters for what a kill leaves, not for these three.

**ProjectGate.** Steps may be any sequence of distinct names, domains and mutants any finite sets. `EarnedInv` says what a green
outcome owes *as long as all are green*: it has to be conditional, since a wheel delivered by an orphaned build can satisfy
the install step. `ScratchInv` makes that exact: an orphan means a red outcome, a wheel means a build. `ChildInv` is the mutation
loop's invariant, that domains taken off the list are decided over the child's own copy; its core is `DumpIsComplete`: a dump
with as many lines as the inventory, no pending, abnormal or surviving one, kills every mutant. `QuietInv` says that without edits all reads are
of one declaration and one tree. One lemma (`EndStep`) serves the ten actions that end a step and one (`OnwardStep`) those that go on within it.

**Release.** Five parts: what the staging directory holds after each phase (`StagedInv`), that in an undisturbed run it is the
certified tree (`CertifiedInv`), that every step before the current one passed (`GateInv`), that the archive changes only in the
last phase (`ArchiveInv`), and that every baseline, measured or written, is what a command can have counted (`BaselineInv`): while the discrimination
gate updates its own, that the table it holds had all its mutations rejected (`Matrix`), that the registry it has read gives each a meaning
(`Resolved`), and that what it reads afterwards is of some source (`Reread`). `OkAlwaysEarned` leaves out one kind of credit, a test pytest cannot find: see section 5.
`RecordedAssumption` asks that the first baselines were measured; `SourcesAssumption` gives a source the shape of one.

**Artifacts.** The proofs of `GreenIsSettled` and `TwoRoundsSettle` are about *which state of the files a value was computed from*, so the
generators themselves (`Census`, `Build`, `IndexFiles`, the renderings) are left folded: the theorems hold whatever these compute.
`IInv` says of a running command that no edit has overtaken (`~job.stale`, which `Typed` ties to `rounds = 0`) that each file
of its goal stands or is still to be written, with the value it has for the files as they are (`JobCurrent`): the
documents behind the one at hand are fresh (`RefreshCurrent`), and what a mirror holds and the skill does not is what it will delete
(`OrphansCurrent`). `Milestones` gives each completed command of the two rounds what it has established, and why one round is not
enough: `provenance` rewrites a document the index and the graph show, so these are only right from the second round on, and
must survive the second `provenance`, which finds its document as it would write it. `ChecksHold` gives each green check what it has seen.
`PassingAgrees` does open the validator and the evidence model. From a validation without errors: ids are unique over all rules of all
documents (V020), so the last rule of an id is the only one; every rule has a record (E001) that names the heading's mechanisms (E004); a withdrawn
record has no strategy left and goes with a RETIRED force (E005, E006); and the kind of each strategy is one expected of its mechanism
(E010). From these `KindsDecide` derives the verification state `VerificationState` prints, case by case of `EnforcementOf`.
Assumed are the shapes of what an editor can leave behind: `CorpusAssumption` (documents, one of them PROVENANCE.md), `RegistriesAssumption`,
`SourcesAssumption` and `SkillAssumption` (finite), and `BoundsAssumption`; what a traversal of the graph finds is used nowhere.

Each `IInv`, and `TabInv`, `FoldInv`, `NowInv` and `LogInv`, was first checked as an invariant of the component's runs.

Only model-checked: the liveness properties `CommandsEnd`, `RunEnds` and `GateEnds` (out of the prover's reach), and the three invariants of
`Navigator`. `ContextIsExact` and `SearchesAreExact` say that a breadth-first or depth-first search finds what walks along the edges define;
what such a recursion computes for every graph is an induction over data that no proof here carries out (section 7).
`DiagnosisIsTrue` is not a statement about every corpus: a retired heading whose record is not, or a rule repeated in a document without an id,
breaks its second half. The run's corpora have neither, and `PassingAgrees` says why one the validator passes cannot have the first.

## 5. Where code and documents part

One run ends in a counterexample on purpose. `store_two_records` states `learn.py:888`, "so a fresh entry cannot collide": two
overlapping `record` commands allocate the same id, since nothing is held between the query and the append, and the fold keeps
the later entry only, as a candidate even when the earlier one was retired in between. One command at a time keeps the claim
(`SerialEntriesNeverCollide`) up to `L-10000`.

The models contain the following too; none has a run of its own.

Learning database
: `learn.py:286` and `:412` say that a merge conflict "is resolvable by keeping both sides"; both sides numbered their lines from the same base, and
  every later fold stops at the second. `learn.py:1885` announces success "only after the feedback and its derived artifacts agree"; views are written outside the
  transaction (`:1671`), so a slow command can overwrite newer views. The ledger is described as fsync-backed and is not synced; ids stop growing after
  `L-10000`; two `calibrate --set` commands may lose a dial although both events are appended. `config.toml:51` asks for independent evidence, since "three outcomes
  inside one session are one observation repeated"; `_restatus` (`:589`) counts helped outcomes and sessions separately, so two helps in one session and a noise outcome in another make an
  entry active. `config.toml:55` lowers the evidence for "a verification command that passes"; a command that was recorded counts, run or not. The models have both, and no property says that an
  active entry has earned it. `_apply` (`:428`) passes over an unrecognised verb since "a ledger written by a newer tool must still fold"; the `CHECK` of `schema.sql:32`
  refuses it, and the fold stops (`Refused`).

Vendor and integration
: `vendor.py:70`: "Seeded into learning/ on first install". Killed between `mkdir` and the copies, no later plain install seeds (`:281`), and `check` says in step.
  `integrate.py:1199`: "install record emptied; nothing of ours is installed"; `--remove --only X` empties the record of every other target too (`:1192`).
  A kill between re-inserting a block and rewriting the record leaves a stale separator on record, and a later removal takes a newline
  of the project's (INTEGRATION.md: "byte for byte"); a kill before the first record leaves entries that no removal takes back; a removal over an unreadable
  `settings.json` empties the record while the entries stay.

Migrations
: `migrate_v5.py:892` promises to "preserve concurrent edits", but an edit between the comparison and the replacement
  is lost, and a release 4 run waking up in that window takes release 5 back. `ProjectBytesSurvive` and
  `DeclarationLast` exclude that window explicitly (`moved`). Release 5's planner accepts a declaration that has release 4's scalar fields but
  no capabilities or roles, which release 4's own tool calls partial.

Project gate
: The digest in the report is of a third read (`project_gate.py:333`), so it may name bytes no step saw. `clean-install` counts the wheels in the scratch directory,
  and may install and pass one that `artifact-build` refused, while its message (`:2439`) speaks of a "validated wheel"; the report is red all the same.

Gates and release
: `release.py:8` says the installer already skips what `prune` removes; it records some of it, so the shipped manifest may list files that are not there
  (`WhatShipsWasChecked` says exactly which). `gate.py`'s own timeout ends it with an uncaught exception; `release.py:829` gives it none. An archive built with `--skip-gate` carries no mark of it.
  `docgate.py:556` and `:580` ignore the exit status of their checkers, so a dead checker finds nothing. `discrimination_gate.py:226` counts a test that errors as one that fails, lest one "credit a broken suite as a working
  one"; so a mutation is credited whose test fails without the damage too, which only the gate's last step shows, and one over the reference package whose test does not exist,
  which no step shows (the preflight at `:426` looks at mutations of the repository only). `OkIsEarned` holds of the gate with that last credit excepted, and fails without the exception. The comment at
  `:831` calls the new baseline written "atomically"; `write_text` truncates the file first, and a kill leaves it torn. The numbers of one baseline may be of several trees: the mutations
  were imported at the start (`:55`), the registry and the corpus are read when they have run (`:650`, `:595`, `:574`). `--update-baseline` may lower a ratchet, and deleting the file switches it off.

Corpus and artifacts
: `README.md:255` lists the build commands and says that `validate.py` then "must exit 0"; after a change of the census one round leaves `rules.json` and `graph.json` stale, because
  `PROVENANCE.md` is written after them. Two rounds suffice (`TwoRoundsSettle`). `extract_sources.py` overwrites the census with a partial one when a source is missing, exits 1, and
  `build_provenance.py` then omits that source silently; `gate.py` runs neither check. `validate.py --root X --update-baseline` records another tree's count here; V081 compares only counts; V094 accepts a missing `graph.json`
  that `build_graph.py --check` calls stale. A heading with a misspelt force is silently no rule.

Navigator
: An answer mixes up to three generations of the corpus; a torn `rules.json` silently drops the caveats; `neighbors` raises `KeyError` on a dangling id. `nav.py:954` falls back to prose "only when the envelope
  named none", but also when none of the ids named is a node.

## 6. What is left out

* Inside the modelled components: a ledger line torn by a kill in the middle of a write larger than the
  8 KiB buffer; the several queries of one view, taken as one read; temporary files a killed
  `_atomic_write` leaves; truncation of a project file and edits during `integrate`'s writes; `--hooks`, CRLF and diffs in
  `integrate`; the text of TOML edits and the inference of roles in the migrations; what the external tools of the gates compute;
  the several hundred damages of `enforce/discrimination.py`, represented by one entry per mechanism; rendering in `nav.py` and in the
  generators.
* Ranking and calibration of `learn.py`, and the learned entries `nav.py context` adds: numeric scoring over a projection, with no state.
* `prune` of the reference package: a fixture the checks are tried on, not a program anybody runs.
* `enforce/checks/` (with `project.py` and `operational_model.py`): some sixty independent predicates over syntax trees and declared models, with no state and no steps.
  A model would be a second copy.
* `harvest`, `conformance.py`, `bench.py`, `check_env.py`, `register_deps.py`, the fitness suites: sequential scripts around external tools that write at most one file.
* Container scripts, prose and generated data.

## 7. The plan

What remains, most valuable first:

1. `Adoption`: `Vendor`, `Integrate` and `Migrate` over one project, in any order and killed anywhere; the record in the
   project half survives vendoring.
2. Theorems: the searches of `Navigation` against walks, each by a least counterexample over the length of the walk, as
   `FoldsExist` does for the ledger.
3. Pure operators: ranking and calibration weights of `learn.py` against a reference definition over bounded inputs.
4. `--hooks` and edits inside an invocation in `Integrate`, whose properties then have to name the window at `integrate.py:1266`.

## 8. How to run it

    tlc -workers 2 -config LearnStoreSerial.cfg MCLearnStore.tla
    tlapm MigrateProofs.tla

`PROJECT.json` pairs every run with its module, configuration and properties, and maps every definition to the lines
it models.
