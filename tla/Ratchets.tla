------------------------------ MODULE Ratchets ------------------------------
(***************************************************************************)
(* The verdicts of the maintainer's gate steps, as operators over a source *)
(* tree, the committed baselines and the machine: lint_gate.py,            *)
(* docgate.py, import_gate.py, type_gate.py, doxygen_gate.py and           *)
(* discrimination_gate.py.                                                 *)
(*                                                                         *)
(* A source s is a record: "findings", how often ruff reports each (file,  *)
(* code) pair; "shape", the code of each covered file without its          *)
(* docstrings; "documented", whether the documentation checkers have       *)
(* nothing to report; what the import contracts, the type checkers and     *)
(* Doxygen would find and over how many subjects; "entries", the declared  *)
(* mutations with what happens when they are tried; "decided", the rules   *)
(* that name a working mechanism; "automated", the strategies of the       *)
(* evidence registry; "stale", the steps whose artifacts are not in step   *)
(* with the corpus; "suite", whether the other tests pass.                 *)
(***************************************************************************)
EXTENDS Integers, Sequences, FiniteSets, FiniteSetsExt

CONSTANTS Pairs,        \* [file, code] records ruff can report
          Files,        \* files the documentation gate covers
          MinContracts, \* MINIMUM_CONTRACTS
          MinFiles,     \* MINIMUM_FILES
          Absent,       \* a baseline file that does not exist
          Torn          \* one a kill left truncated: it does not parse

(***************************************************************************)
(* lint_gate.py: recorded pairs and a total.  A protected code is refused  *)
(* whatever the baseline says; a run of ruff that is no verdict is red.    *)
(***************************************************************************)
PROTECTED == {"S101", "BLE001", "C901", "D100"}

PairsOf(s) == {p \in Pairs : s.findings[p] > 0}
CountOf(s) == MapThenSumSet(LAMBDA p : s.findings[p], Pairs)
Protected(pairs) == {p \in pairs : p.code \in PROTECTED}

LoadLintBaseline(b) == IF b = Absent THEN [count |-> 0, pairs |-> {}] ELSE b

JudgeLint(s, recorded) ==
    /\ Protected(PairsOf(s)) = {}
    /\ PairsOf(s) \subseteq recorded.pairs
    /\ CountOf(s) <= recorded.count

LintGate(s, b, alive) ==
    /\ "ruff" \in alive
    /\ b # Torn
    /\ JudgeLint(s, LoadLintBaseline(b))

\* What --update-baseline records, and when it refuses.
MeasuredLint(s) == [count |-> CountOf(s), pairs |-> PairsOf(s)]

LintUpdatable(s, alive) == "ruff" \in alive /\ Protected(PairsOf(s)) = {}

(***************************************************************************)
(* docgate.py: every covered file with a baseline entry still has the      *)
(* recorded code.  The other three sub-gates read their checker's output   *)
(* and never its exit status: a checker that dies reports nothing.         *)
(***************************************************************************)
CheckBehaviour(s, b) ==
    /\ b \notin {Absent, Torn}
    /\ \A f \in Files : s.shape[f] # "none" /\ b[f] # "none" => s.shape[f] = b[f]

RunDocChecks(s, alive) == s.documented \/ "checkers" \notin alive

DocGate(s, b, alive) == CheckBehaviour(s, b) /\ RunDocChecks(s, alive)

\* --baseline with no paths, and with paths and a reason.
MeasuredDocs(s) == s.shape

RerecordedDocs(s, b, f) == [b EXCEPT ![f] = s.shape[f]]

(***************************************************************************)
(* import_gate.py, type_gate.py, doxygen_gate.py: a clean run over too few *)
(* subjects is red.                                                        *)
(***************************************************************************)
ImportGate(s) == ~s.broken /\ s.contracts >= MinContracts

TypeGate(s, alive) == {"mypy", "pyright"} \subseteq alive /\ s.typed /\ s.analysed >= MinFiles

DoxygenGate(s, alive) ==
    "doxygen" \in alive /\ ~s.warnings /\ s.pages >= MinFiles /\ s.related

(***************************************************************************)
(* discrimination_gate.py.  An entry names a rule, the mechanism ("" when  *)
(* it is the rule's only one) and how its rejection is observed: by the    *)
(* checks, by a tool's diagnostic, by a test that must fail over the       *)
(* damaged tree (of the reference package or of a copy of the repository), *)
(* or by a test that proves it by passing.  "rejects": the mechanism       *)
(* rejects the damage.  "clean": it is silent over the undamaged tree.     *)
(* "drifted": the damage no longer applies.  "known": pytest collects the  *)
(* test that is named.                                                     *)
(***************************************************************************)
Of(s, kind) == {e \in s.entries : e.kind = kind}

\* A diagnostic is compared by name, a test by pytest's exit status alone, which
\* a name it cannot find makes a failure.
Provokes(e) ==
    CASE e.kind \in {"node", "repository"} -> ~e.known \/ e.rejects \/ ~e.clean
      [] e.kind = "proof" -> e.known /\ e.rejects
      [] OTHER -> e.rejects

\* run: the conformant tree must be silent for checks, tools and copied tests.
Preflight(s) ==
    /\ \A e \in Of(s, "check") \cup Of(s, "tool") : e.clean
    /\ \A e \in Of(s, "repository") : e.known /\ e.clean

Broken(s) == {e \in s.entries : e.drifted \/ ~Provokes(e)}
Provoked(s) == {e.rule : e \in s.entries \ Broken(s)}
Undiscriminated(s, provoked) == s.decided \ provoked

\* The automated strategies an entry may mean: the one it names, or any of its rule's.
Candidates(automated, rule) == {p \in automated : p[1] = rule}
Meant(e, automated) == {p \in Candidates(automated, e.rule) : e.mechanism \in {"", p[2]}}

\* A rule without automated strategies is passed over; of another an entry must
\* mean exactly one, or the gate stops.
WitnessesResolve(entries, automated) ==
    \A e \in entries :
        Candidates(automated, e.rule) # {} => Cardinality(Meant(e, automated)) = 1

Witnessed(entries, automated) == UNION {Meant(e, automated) : e \in entries}

RatchetsHeld(s, provoked, b) ==
    LET witnessed == Witnessed(s.entries, s.automated)
    IN  /\ Cardinality(provoked) >= b.count
        /\ Cardinality(Undiscriminated(s, provoked)) <= b.gap
        /\ Cardinality(witnessed) >= b.strategies
        /\ Cardinality(s.automated \ witnessed) <= b.strategyGap

DiscriminationRun(s) == Preflight(s) /\ Broken(s) = {}

DiscriminationGate(s, b) ==
    /\ b # Torn
    /\ DiscriminationRun(s)
    /\ WitnessesResolve(s.entries, s.automated)
    /\ b = Absent \/ RatchetsHeld(s, Provoked(s), b)

\* What --update-baseline records: its table of mutations was imported and run
\* on matrix, the registry then read twice, the corpus last.
MeasuredDiscrimination(matrix, first, second, corpus) ==
    LET provoked == Provoked(matrix)
        witnessed == Witnessed(matrix.entries, first.automated)
    IN  [count |-> Cardinality(provoked),
         gap |-> Cardinality(Undiscriminated(corpus, provoked)),
         strategies |-> Cardinality(witnessed),
         strategyGap |-> Cardinality(second.automated \ witnessed)]

\* pytest over tools and enforce: every test there is runs here undamaged, the
\* cited ones among them.
TestsPass(s) ==
    s.suite /\ \A e \in Of(s, "node") \cup Of(s, "repository") \cup Of(s, "proof") :
                  e.known => IF e.kind = "proof" THEN e.rejects ELSE e.clean

=============================================================================
