----------------------------- MODULE GateProbes -----------------------------
(***************************************************************************)
(* What the steps of tools/project_gate.py demand of the declaration and   *)
(* of the repository before they run a tool, and what they accept of the   *)
(* tool's answer.                                                          *)
(*                                                                         *)
(* A declaration stands for the bytes of one pyproject.toml: whether they  *)
(* parse, whether describe() accepts them, the set of fields that hold     *)
(* what the probes expect, the domain paths, and the identity of the       *)
(* distribution.  A tree stands for everything else: for which steps the   *)
(* configured targets exist and hold Python files ("populated"), for which *)
(* the tool finds nothing ("clean") and reports having examined something  *)
(* ("examined"), the two configuration files steps read beside             *)
(* pyproject.toml, and what the mutation engine would find in it.          *)
(***************************************************************************)
EXTENDS Integers, Sequences, FiniteSets

CONSTANTS Declarations, Trees,    \* contents the repository can have
          NoDeclaration, NoTree   \* nothing read yet

(***************************************************************************)
(* The fields of the declaration each configuration probe insists on.      *)
(***************************************************************************)
RuffFields == {"tool.ruff.src"}
MypyFields == {"tool.mypy.strict"}
PyrightFields == {"tool.pyright.typeCheckingMode", "tool.pyright.include"}
ImportFields == {"gate.import_contracts"}
DoxygenFields == {"gate.doxyfile"}
PytestFields == {"pytest.testpaths", "pytest.timeout", "pytest.timeout_method",
                 "pytest.disable-socket"}
MutationFields == {"roles.domain", "mutation.test_targets", "mutation.mutant_timeout",
                   "mutation.command_timeout", "mutation.maximum_survival"}
IdentityFields == {"project.name", "project.version"}
BuildFields == IdentityFields \cup {"build-system.build-backend", "build-system.requires"}
InstallFields == IdentityFields \cup {"gate.artifact_imports", "gate.artifact_probes"}

\* _prepare_doxygen: the settings of the Doxyfile, INPUT being the declared roots.
DoxyfileSettings == {"INPUT", "FILE_PATTERNS", "WARN_AS_ERROR", "GENERATE_HTML"}

DoxyfileSound(t) == DoxyfileSettings \subseteq t.doxyfile

\* _prepare_import_contracts: the file parses, lists root packages that exist and a contract.
ContractsSound(t) == t.contracts = "sound"

Needs(s) ==
    CASE s = "ruff" -> RuffFields
      [] s = "mypy" -> MypyFields
      [] s = "pyright" -> PyrightFields
      [] s = "import-contracts" -> ImportFields
      [] s = "documentation" -> DoxygenFields
      [] s = "pytest" -> PytestFields
      [] s = "mutation" -> MutationFields
      [] s = "artifact-build" -> BuildFields
      [] s = "clean-install" -> InstallFields
      [] OTHER -> {}

(***************************************************************************)
(* The configuration probe of step s, over the parsed declaration d and    *)
(* the live tree t.  _local_targets: the targets lie in the repository,    *)
(* exist and contain a Python file.                                        *)
(***************************************************************************)
Probed(s, d, t) ==
    /\ Needs(s) \subseteq d.fields
    /\ s \in {"ruff", "mypy", "pyright", "documentation", "pytest", "mutation"}
          => s \in t.populated
    /\ s = "import-contracts" => ContractsSound(t)
    /\ s = "documentation" => DoxyfileSound(t)

(***************************************************************************)
(* What a tool answers when it reads the live repository: its exit status, *)
(* which is not zero over a declaration it cannot parse, and whether its   *)
(* output shows that it examined anything.                                 *)
(***************************************************************************)
Answer(s, d, t) ==
    [zero |-> d.wellFormed /\ s \in t.clean, examined |-> s \in t.examined]

OrdinaryEvaluation(a) == a.zero

\* At least one test passed.
PytestEvaluation(a) == a.zero /\ a.examined

\* At least one file was analysed.
PyrightEvaluation(a) == a.zero /\ a.examined

\* Mutant: the exit status alone, as for the other tools.
DoxygenEvaluation_statusOnly(a) == a.zero

\* At least one source page was generated for every configured file.
DoxygenEvaluation(a) == a.zero /\ a.examined

Evaluates(s, a) ==
    CASE s = "pytest" -> PytestEvaluation(a)
      [] s = "pyright" -> PyrightEvaluation(a)
      [] s = "documentation" -> DoxygenEvaluation(a)
      [] OTHER -> OrdinaryEvaluation(a)

(***************************************************************************)
(* _validate_artifacts: exactly one wheel and one source archive, both of  *)
(* the identity the parsed declaration states.                             *)
(***************************************************************************)
ValidArtifacts(wheels, sdists, built, d) ==
    wheels = 1 /\ sdists = 1 /\ built.decl.identity = d.identity

=============================================================================
