----------------------------- MODULE ProjectGate -----------------------------
(***************************************************************************)
(* tools/project_gate.py: one run of the aggregate gate over a repository  *)
(* that somebody may be editing.  The declaration is read three times,     *)
(* then every step probes its configuration, looks its tool up, runs it    *)
(* over the live repository and evaluates the answer.  An outcome carries, *)
(* besides its status, what was probed and what was judged: the code does  *)
(* not record it, the properties need it.                                  *)
(***************************************************************************)
EXTENDS MutationGate

CONSTANTS Steps,        \* the ordered adapters run() is given
          Hosts,        \* machines: supported platform or not, tools installed
          MaxEdits      \* bound on edits of the repository during the run

ASSUME StepsAssumption ==
    /\ Steps \in Seq(STRING) /\ Len(Steps) > 0
    /\ \A i, j \in DOMAIN Steps : Steps[i] = Steps[j] => i = j
ASSUME EditsAssumption == MaxEdits \in Nat

VARIABLES edits,        \* <<edits of the declaration, edits of the tree>>
          ctx,          \* the context: what each of the three reads saw
          phase,        \* where the run is
          probed,       \* the bytes the current step's probe accepted
          outcome,      \* results of the steps so far
          scratch,      \* isolated copy and artifacts
          verdict,      \* what the process exits with
          evidence      \* the report at --json

repository == <<decl, tree, host>>
vars == <<decl, tree, host, child, edits, ctx, phase, probed, outcome, scratch,
          verdict, evidence>>

Statuses == {"pass", "fail", "not-applicable", "unsupported", "not-run"}

\* Mutant: whatever did not fail is green.
Green_notFailed(o) == o.status # "fail"

Green(o) == o.status \in {"pass", "not-applicable"}

Outcome(s, p, j) == [status |-> s, probed |-> p, judged |-> j]
Red(s) == Outcome(s, Nothing, Nothing)

NoContext == [declaration |-> NoDeclaration, document |-> NoDeclaration,
              digest |-> NoDeclaration]
NoScratch == [copy |-> Nothing, wheels |-> 0, sdists |-> 0, orphan |-> FALSE]

Current == Steps[Len(outcome) + 1]
At(p) == phase = p /\ verdict = "running"
Context == [decl |-> ctx.document, tree |-> tree]

Init ==
    /\ decl \in Declarations /\ tree \in Trees /\ host \in Hosts
    /\ edits = <<0, 0>> /\ child = Idle
    /\ ctx = NoContext /\ phase = "describe" /\ probed = Nothing
    /\ outcome = <<>> /\ scratch = NoScratch /\ verdict = "running"
    /\ evidence = "absent"

-----------------------------------------------------------------------------
\* What the process held is gone with it.
Forgotten ==
    /\ child' = Idle /\ ctx' = NoContext /\ probed' = Nothing
    /\ outcome' = <<>> /\ scratch' = NoScratch
    /\ verdict' = "lost" /\ phase' = "ended"

(***************************************************************************)
(* _load_context: describe() reads and parses the declaration, tomllib     *)
(* reads it again, the digest is taken of a third read.                    *)
(***************************************************************************)
Refuse ==
    /\ outcome' = [i \in 1..Len(Steps) |-> Red("not-run")]
    /\ phase' = "report"
    /\ UNCHANGED ctx

Describe ==
    /\ At("describe")
    /\ IF decl.accepted
       THEN /\ ctx' = [ctx EXCEPT !.declaration = decl]
            /\ phase' = "document" /\ UNCHANGED outcome
       ELSE Refuse
    /\ UNCHANGED <<repository, child, edits, probed, scratch, verdict, evidence>>

ReadDocument ==
    /\ At("document")
    /\ IF decl.wellFormed
       THEN /\ ctx' = [ctx EXCEPT !.document = decl]
            /\ phase' = "digest" /\ UNCHANGED outcome
       ELSE Refuse
    /\ UNCHANGED <<repository, child, edits, probed, scratch, verdict, evidence>>

TakeDigest ==
    /\ At("digest")
    /\ ctx' = [ctx EXCEPT !.digest = decl]
    /\ phase' = "prepare"
    /\ UNCHANGED <<repository, child, edits, probed, outcome, scratch, verdict, evidence>>

-----------------------------------------------------------------------------
\* The current step ends with o.
End(o) ==
    /\ outcome' = Append(outcome, o)
    /\ phase' = IF Len(outcome) + 1 = Len(Steps) THEN "report" ELSE "prepare"
    /\ probed' = Nothing

(***************************************************************************)
(* DisciplineChecksAdapter: the checks run in this process over one walk   *)
(* of the roots, the files are counted in another; no file at all is red   *)
(* even without a finding.                                                 *)
(***************************************************************************)
RunChecks ==
    /\ At("prepare") /\ Current = "discipline-checks"
    /\ probed' = [decl |-> ctx.declaration, tree |-> tree]
    /\ phase' = "count"
    /\ UNCHANGED <<repository, child, edits, ctx, outcome, scratch, verdict, evidence>>

CountFiles ==
    /\ At("count")
    /\ LET clean == Current \in probed.tree.clean
           any == Current \in tree.populated
       IN  End(Outcome(IF any /\ clean THEN "pass" ELSE "fail", probed,
                       [decl |-> ctx.declaration, tree |-> tree]))
    /\ UNCHANGED <<repository, child, edits, ctx, scratch, verdict, evidence>>

(***************************************************************************)
(* ConfiguredToolAdapter and DocumentationAdapter: platform, probe, tool   *)
(* lookup.                                                                 *)
(***************************************************************************)
Tools == {"ruff", "mypy", "pyright", "import-contracts", "documentation",
          "pytest", "mutation"}

Preparation ==
    /\ IF ~host.supported THEN End(Red("unsupported"))
       ELSE IF ~Probed(Current, ctx.document, tree) THEN End(Red("fail"))
       ELSE IF Current \notin host.installed THEN End(Red("unsupported"))
       ELSE phase' = "execute" /\ probed' = Context /\ UNCHANGED outcome
    /\ UNCHANGED <<repository, child, edits, ctx, scratch, verdict, evidence>>

Prepare == At("prepare") /\ Current \in Tools \ {"documentation"} /\ Preparation

PrepareDocumentation == At("prepare") /\ Current = "documentation" /\ Preparation

(***************************************************************************)
(* The tool reads the live repository, its own configuration included.     *)
(***************************************************************************)
DoxyfileGone(s) == s = "documentation" /\ tree.doxyfile = {}

RunTool ==
    /\ At("execute") /\ Current \in Tools \ {"mutation"} /\ ~DoxyfileGone(Current)
    /\ End(Outcome(IF Evaluates(Current, Answer(Current, decl, tree)) THEN "pass" ELSE "fail",
                   probed, Bytes))
    /\ UNCHANGED <<repository, child, edits, ctx, scratch, verdict, evidence>>

(***************************************************************************)
(* Exceptions no adapter translates lose every outcome collected so far:   *)
(* the Doxyfile is read once more to run Doxygen, and copytree meets a     *)
(* file it cannot read.                                                    *)
(***************************************************************************)
Lose ==
    /\ \/ At("execute") /\ DoxyfileGone(Current)
       \/ At("copy") /\ tree.unreadable
    /\ Forgotten
    /\ UNCHANGED <<repository, edits, evidence>>

\* _execute: the tool overruns its budget or cannot be started.
Overrun ==
    /\ At("execute") /\ Current \in Tools \ {"mutation"}
    /\ End(Outcome("fail", probed, Nothing))
    /\ UNCHANGED <<repository, child, edits, ctx, scratch, verdict, evidence>>

(***************************************************************************)
(* The mutation step runs a process of its own and reads the report it     *)
(* prints: status pass, positive counts.                                   *)
(***************************************************************************)
SpawnMutation ==
    /\ At("execute") /\ Current = "mutation"
    /\ child' = Spawned /\ phase' = "child"
    /\ UNCHANGED <<repository, edits, ctx, probed, outcome, scratch, verdict, evidence>>

RunChild ==
    /\ At("child") /\ ChildStep
    /\ UNCHANGED <<edits, ctx, phase, probed, outcome, scratch, verdict, evidence>>

MutationEvaluation(c) == c.status = "pass" /\ c.mutants > 0 /\ c.killed > 0

ReapMutation ==
    /\ At("child") /\ child.phase = "exited"
    /\ End(Outcome(IF MutationEvaluation(child) THEN "pass" ELSE "fail", probed, child.copy))
    /\ UNCHANGED <<repository, child, edits, ctx, scratch, verdict, evidence>>

KillMutation ==
    /\ At("child") /\ child.phase # "exited"
    /\ child' = Idle
    /\ End(Outcome("fail", probed, Nothing))
    /\ UNCHANGED <<repository, edits, ctx, scratch, verdict, evidence>>

-----------------------------------------------------------------------------
(***************************************************************************)
(* ArtifactBuildAdapter: identity and build system, a walk that refuses    *)
(* symbolic links, the copy, then the lookup, the build and the inspection *)
(* of what it left.                                                        *)
(***************************************************************************)
ScanSources ==
    /\ At("prepare") /\ Current = "artifact-build"
    /\ IF Probed(Current, ctx.document, tree) /\ ~tree.symlink
       THEN phase' = "copy" /\ probed' = Context /\ UNCHANGED outcome
       ELSE End(Red("fail"))
    /\ UNCHANGED <<repository, child, edits, ctx, scratch, verdict, evidence>>

CopySources ==
    /\ At("copy") /\ ~tree.unreadable
    /\ scratch' = [scratch EXCEPT !.copy = Bytes]
    /\ IF Current \notin host.installed THEN End(Red("unsupported"))
       ELSE phase' = "execute" /\ UNCHANGED <<outcome, probed>>
    /\ UNCHANGED <<repository, child, edits, ctx, verdict, evidence>>

Build ==
    /\ At("execute") /\ Current = "artifact-build"
    /\ \/ \E wheels \in 0..2, sdists \in 0..1 :
             LET sound == ValidArtifacts(wheels, sdists, scratch.copy, ctx.document)
                 zero == Answer(Current, scratch.copy.decl, scratch.copy.tree).zero
             IN  /\ zero \/ wheels = 0
                 /\ scratch' = [scratch EXCEPT !.wheels = wheels, !.sdists = sdists]
                 /\ End(Outcome(IF zero /\ sound THEN "pass" ELSE "fail", probed, scratch.copy))
       \/ /\ scratch' = [scratch EXCEPT !.orphan = TRUE]
          /\ End(Outcome("fail", probed, Nothing))
    /\ UNCHANGED <<repository, child, edits, ctx, verdict, evidence>>

\* A build killed by its timeout leaves its own children running: one may still deliver.
OrphanDelivers ==
    /\ verdict = "running" /\ scratch.orphan
    /\ scratch' = [scratch EXCEPT !.orphan = FALSE, !.wheels = scratch.wheels + 1]
    /\ UNCHANGED <<repository, child, edits, ctx, phase, probed, outcome, verdict, evidence>>

(***************************************************************************)
(* CleanInstallAdapter installs the one wheel it finds into a new          *)
(* environment, compares the installed version with the declared one,      *)
(* imports and runs the declared probes.  Every stage may fail.            *)
(***************************************************************************)
PrepareInstall ==
    /\ At("prepare") /\ Current = "clean-install"
    /\ IF scratch.wheels # 1 THEN End(Red("not-run"))
       ELSE IF ~Probed(Current, ctx.document, tree) THEN End(Red("fail"))
       ELSE phase' = "execute" /\ probed' = Context /\ UNCHANGED outcome
    /\ UNCHANGED <<repository, child, edits, ctx, scratch, verdict, evidence>>

\* The environment cannot be created, or pip or a probe cannot be run to its end.
FailInstall ==
    /\ At("execute") /\ Current = "clean-install"
    /\ End(Outcome("fail", probed, Nothing))
    /\ UNCHANGED <<repository, child, edits, ctx, scratch, verdict, evidence>>

InstalledImports(d) == scratch.copy.decl.identity = d.identity

InstalledCommands == Answer(Current, scratch.copy.decl, scratch.copy.tree).zero

Install ==
    /\ At("execute") /\ Current = "clean-install"
    /\ End(Outcome(IF InstalledImports(ctx.document) /\ InstalledCommands
                   THEN "pass" ELSE "fail", probed, scratch.copy))
    /\ UNCHANGED <<repository, child, edits, ctx, scratch, verdict, evidence>>

-----------------------------------------------------------------------------
(***************************************************************************)
(* run() and main(): the report is green when every outcome is; it is      *)
(* written in place at --json after it was printed.                        *)
(***************************************************************************)
ReportGreen ==
    /\ ctx.digest # NoDeclaration
    /\ \A i \in DOMAIN outcome : Green(outcome[i])

WriteEvidence ==
    /\ At("report")
    /\ evidence' = IF ReportGreen THEN "pass" ELSE "fail"
    /\ phase' = "exit"
    /\ UNCHANGED <<repository, child, edits, ctx, probed, outcome, scratch, verdict>>

Exit ==
    /\ At("exit")
    /\ verdict' = IF ReportGreen THEN "pass" ELSE "fail"
    /\ phase' = "ended"
    /\ UNCHANGED <<repository, child, edits, ctx, probed, outcome, scratch, evidence>>

\* A kill anywhere; the report may be truncated and not yet written.
Kill ==
    /\ verdict = "running"
    /\ Forgotten
    /\ evidence' \in IF phase = "report" THEN {evidence, "torn"} ELSE {evidence}
    /\ UNCHANGED <<repository, edits>>

\* Somebody edits the declaration or the rest of the repository while the gate runs.
EditDeclaration ==
    /\ verdict = "running" /\ edits[1] + edits[2] < MaxEdits
    /\ decl' \in Declarations \ {decl}
    /\ edits' = [edits EXCEPT ![1] = edits[1] + 1]
    /\ UNCHANGED <<tree, host, child, ctx, phase, probed, outcome, scratch, verdict, evidence>>

EditTree ==
    /\ verdict = "running" /\ edits[1] + edits[2] < MaxEdits
    /\ tree' \in Trees \ {tree}
    /\ edits' = [edits EXCEPT ![2] = edits[2] + 1]
    /\ UNCHANGED <<decl, host, child, ctx, phase, probed, outcome, scratch, verdict, evidence>>

GateStep ==
    \/ Describe \/ ReadDocument \/ TakeDigest
    \/ RunChecks \/ CountFiles \/ Prepare \/ PrepareDocumentation \/ RunTool \/ Overrun \/ Lose
    \/ SpawnMutation \/ RunChild \/ ReapMutation \/ KillMutation
    \/ ScanSources \/ CopySources \/ Build \/ PrepareInstall \/ FailInstall \/ Install
    \/ WriteEvidence \/ Exit

Next == GateStep \/ OrphanDelivers \/ Kill \/ EditDeclaration \/ EditTree

(***************************************************************************)
(* Every subprocess has a timeout and nothing waits for anybody else: as   *)
(* long as the gate is scheduled it takes its next step.                   *)
(***************************************************************************)
Spec == Init /\ [][Next]_vars /\ WF_vars(GateStep)

-----------------------------------------------------------------------------
Outcomes == [status : Statuses, probed : BytesRead, judged : BytesRead]
Contexts == [declaration : Declarations \cup {NoDeclaration},
             document : Declarations \cup {NoDeclaration},
             digest : Declarations \cup {NoDeclaration}]
Scratches == [copy : BytesRead, wheels : Nat, sdists : Nat, orphan : BOOLEAN]
Phases == {"describe", "document", "digest", "prepare", "count", "copy", "execute", "child",
           "report", "exit", "ended"}

\* Every variable keeps its shape.
TypeOK ==
    /\ decl \in Declarations /\ tree \in Trees /\ host \in Hosts
    /\ edits \in Nat \X Nat
    /\ ctx \in Contexts /\ phase \in Phases /\ probed \in BytesRead
    /\ child \in Children
    /\ outcome \in Seq(Outcomes) /\ Len(outcome) <= Len(Steps)
    /\ scratch \in Scratches
    /\ verdict \in {"running", "pass", "fail", "lost"}
    /\ evidence \in {"absent", "pass", "fail", "torn"}

(***************************************************************************)
(* What a green outcome of step s promises, over the declaration d and the *)
(* tree t: stated from what the steps are for, not from how they decide.   *)
(* Killed mutants prove nothing of a suite that does not pass unmutated,   *)
(* and a domain without a mutant proves nothing at all.                    *)
(***************************************************************************)
NothingSurvives(d, t) ==
    /\ d.domains # {}
    /\ t.suite = "passes"
    /\ \A p \in d.domains :
          /\ \E m \in Mutants : t.fate[p][m] # "none"
          /\ \A m \in Mutants : t.fate[p][m] \in {"none", "killed"}

Promised(s, d, t) ==
    /\ s = "mutation" => NothingSurvives(d, t)
    /\ s # "mutation" => s \in t.clean
    /\ s \in {"pytest", "pyright", "documentation"} => s \in t.examined
    /\ s \in {"discipline-checks", "ruff", "mypy", "pyright", "documentation", "pytest",
              "mutation"} => s \in t.populated
    /\ s = "pytest" => "pytest.disable-socket" \in d.fields
    /\ s = "mutation" => "mutation.maximum_survival" \in d.fields
    /\ s = "documentation" => "WARN_AS_ERROR" \in t.doxyfile
    /\ s = "artifact-build" => ~t.symlink

(***************************************************************************)
(* The report of a run nobody disturbed is true: it has an outcome for     *)
(* every step, a red one hiding none of the others, and every green        *)
(* outcome's promise holds of the repository.  Broken by an evaluation     *)
(* that takes silence, an empty inventory or a pending mutant for success. *)
(***************************************************************************)
QuietReportIsTrue ==
    edits = <<0, 0>> /\ verdict \in {"pass", "fail"} =>
        /\ Len(outcome) = Len(Steps)
        /\ \A i \in DOMAIN outcome : Green(outcome[i]) => Promised(Steps[i], decl, tree)
        /\ verdict = "pass" => decl.accepted /\ ctx.digest = decl

(***************************************************************************)
(* A green verdict over a repository that was edited meanwhile still says  *)
(* something: every step held of the bytes that step judged, the mutants   *)
(* of every domain the mutation process loaded were killed in its copy,    *)
(* and the wheel that was installed is the one that was built, of the      *)
(* identity the context declares.                                          *)
(***************************************************************************)
GreenIsEarned ==
    verdict = "pass" =>
        \A i \in DOMAIN outcome :
            LET s == Steps[i]  o == outcome[i] IN
            /\ Needs(s) \subseteq ctx.document.fields
            /\ s = "mutation" => NothingSurvives(child.config, o.judged.tree)
            /\ s # "mutation" => s \in o.judged.tree.clean \cup o.probed.tree.clean
            /\ s \in {"artifact-build", "clean-install"} =>
                  /\ o.judged = scratch.copy
                  /\ scratch.copy.decl.identity = ctx.document.identity
                  /\ scratch.wheels = 1

(***************************************************************************)
(* A report on disk that says pass is complete and green, whatever became  *)
(* of the process after it wrote it, and the exit status agrees with the   *)
(* file.                                                                   *)
(***************************************************************************)
GreenEvidenceIsComplete ==
    /\ evidence = "pass" /\ verdict # "lost" =>
          /\ Len(outcome) = Len(Steps)
          /\ \A i \in DOMAIN outcome : outcome[i].status \notin {"fail", "unsupported", "not-run"}
    /\ verdict \in {"pass", "fail"} => evidence = verdict

\* A run ends, every tool and every domain of the mutation gate being bounded.
RunEnds == <>(verdict # "running")

=============================================================================
