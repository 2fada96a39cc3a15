---------------------------- MODULE MutationGate ----------------------------
(***************************************************************************)
(* tools/mutation_gate.py: the child process of the project gate's         *)
(* mutation step.  It copies the repository once, and for every declared   *)
(* domain path asks the mutation engine for an unmutated baseline, an      *)
(* inventory, an execution and a completed dump.  The engine is external:  *)
(* it may exit with an error, leave work pending, drop a work item or run  *)
(* one abnormally, and its baseline command calls a suite that could not   *)
(* run a success.                                                          *)
(***************************************************************************)
EXTENDS Integers, Sequences, FiniteSets, GateProbes

CONSTANTS Paths,        \* domain paths a declaration may name
          Mutants       \* work items the engine may generate

VARIABLES decl,         \* bytes of pyproject.toml now
          tree,         \* everything else in the repository now
          host,         \* what the machine running the gate offers
          child         \* the mutation process

\* What the tests of one path make of one mutant; "none" is a mutant it has no place for.
Fates == {"none", "killed", "survived", "incompetent"}

\* A tree gives every mutant of every path a fate, and a declaration with a domain role
\* names at least one path.
ASSUME DomainsAssumption ==
    /\ IsFiniteSet(Mutants)
    /\ \A t \in Trees : t.fate \in [Paths -> [Mutants -> Fates]]
    /\ \A d \in Declarations : d.domains \subseteq Paths
                                /\ ("roles.domain" \in d.fields => d.domains # {})

Nothing == [decl |-> NoDeclaration, tree |-> NoTree]
Bytes == [decl |-> decl, tree |-> tree]

Idle == [phase |-> "idle", config |-> NoDeclaration, copy |-> Nothing,
         domains |-> {}, at |-> "none",
         work |-> <<>>, mutants |-> 0, killed |-> 0, status |-> "none"]

Report(c, s) == [c EXCEPT !.phase = "exited", !.status = s]

Spawned == [Idle EXCEPT !.phase = "load"]

(***************************************************************************)
(* load_configuration: the child reads the live declaration itself, some   *)
(* time after the parent parsed it.                                        *)
(***************************************************************************)
PathsHoldPython(t) == "mutation" \in t.populated

LoadConfiguration(d, t) ==
    d.wellFormed /\ MutationFields \subseteq d.fields /\ PathsHoldPython(t)

Load ==
    /\ child.phase = "load"
    /\ child' = IF "mutation" \in host.installed /\ LoadConfiguration(decl, tree)
                THEN [child EXCEPT !.phase = "scan", !.config = decl, !.domains = decl.domains]
                ELSE Report(child, "fail")
    /\ UNCHANGED <<decl, tree, host>>

(***************************************************************************)
(* _isolated_copy refuses a repository with a symbolic link, then copies.  *)
(* An OSError of copytree is caught by nobody: the process dies without a  *)
(* report.                                                                 *)
(***************************************************************************)
Scan ==
    /\ child.phase = "scan"
    /\ child' = IF tree.symlink THEN Report(child, "fail")
                ELSE [child EXCEPT !.phase = "copy"]
    /\ UNCHANGED <<decl, tree, host>>

Copy ==
    /\ child.phase = "copy"
    /\ child' = IF tree.unreadable THEN Report(child, "none")
                ELSE [child EXCEPT !.phase = "baseline", !.copy = Bytes,
                        !.at = CHOOSE p \in child.domains : TRUE]
    /\ UNCHANGED <<decl, tree, host>>

(***************************************************************************)
(* The baseline command reports success for a suite that is incompetent;   *)
(* _baseline_passed reads the dump instead: exactly one result, completed  *)
(* normally, survived.                                                     *)
(***************************************************************************)
BaselineDumps(c) ==
    {<<>>} \cup
    {<<[worker |-> w, test |-> t]>> :
        w \in {"normal", "abnormal"},
        t \in IF c.copy.tree.suite = "passes" THEN {"survived"}
              ELSE IF c.copy.tree.suite = "fails" THEN {"killed"} ELSE {"incompetent"}}

BaselinePassed(dump) ==
    /\ Len(dump) = 1
    /\ dump[1].worker = "normal"
    /\ dump[1].test = "survived"

Baseline ==
    /\ child.phase = "baseline"
    /\ \E dump \in BaselineDumps(child) :
          child' = IF BaselinePassed(dump) THEN [child EXCEPT !.phase = "inventory"]
                   ELSE Report(child, "fail")
    /\ UNCHANGED <<decl, tree, host>>

(***************************************************************************)
(* init and the first dump: _mutant_count refuses an empty inventory.      *)
(***************************************************************************)
Generated(c) == {m \in Mutants : c.copy.tree.fate[c.at][m] # "none"}

Inventory ==
    /\ child.phase = "inventory"
    /\ child' = IF Generated(child) = {} THEN Report(child, "fail")
                ELSE [child EXCEPT !.phase = "exec",
                        !.work = [m \in Generated(child) |-> "pending"]]
    /\ UNCHANGED <<decl, tree, host>>

(***************************************************************************)
(* exec: every work item gets the fate the tests give it, except those the *)
(* engine mistreats.  A command that fails or overruns its budget is a     *)
(* refusal.                                                                *)
(***************************************************************************)
Executed(c, mistreated, how) ==
    [m \in DOMAIN c.work |-> IF m \in mistreated THEN how ELSE c.copy.tree.fate[c.at][m]]

Execute ==
    /\ child.phase = "exec"
    /\ \/ child' = Report(child, "fail")
       \/ \E mistreated \in SUBSET DOMAIN child.work, how \in {"abnormal", "pending", "dropped"} :
             child' = [child EXCEPT !.phase = "judge",
                                    !.work = Executed(child, mistreated, how)]
    /\ UNCHANGED <<decl, tree, host>>

(***************************************************************************)
(* _result_records and _survivors over the completed dump.  A dropped item *)
(* has no line in it, a pending one has no completed result.               *)
(***************************************************************************)
Reported(work) == {m \in DOMAIN work : work[m] # "dropped"}

\* Mutant: the number of lines of the dump is compared, what they say is not.
Refused_countOnly(work) ==
    Cardinality(Reported(work)) # Cardinality(DOMAIN work)

Refused(work) ==
    \/ \E m \in Reported(work) : work[m] = "pending"
    \/ Cardinality(Reported(work)) # Cardinality(DOMAIN work)
    \/ \E m \in Reported(work) : work[m] \notin {"killed", "survived"}

Survivors(work) == {m \in Reported(work) : work[m] = "survived"}

Judge ==
    /\ child.phase = "judge"
    /\ child' = IF Refused(child.work) \/ Survivors(child.work) # {} THEN Report(child, "fail")
                ELSE [child EXCEPT !.phase = "score"]
    /\ UNCHANGED <<decl, tree, host>>

(***************************************************************************)
(* survival_rate may itself fail; then the domain is counted and the next  *)
(* one begins, or the report is published.                                 *)
(***************************************************************************)
\* Mutant: a finished domain stays in the list.
Counted_endless(c) == [c EXCEPT !.mutants = Cardinality(DOMAIN c.work), !.killed = 1]

Counted(c) == [c EXCEPT !.mutants = c.mutants + Cardinality(DOMAIN c.work),
                        !.killed = c.killed + 1, !.domains = c.domains \ {c.at}]

Score ==
    /\ child.phase = "score"
    /\ \/ child' = Report(child, "fail")
       \/ LET c == Counted(child)
          IN  child' = IF c.domains = {} THEN Report(c, "pass")
                       ELSE [c EXCEPT !.phase = "baseline",
                                      !.at = CHOOSE p \in c.domains : TRUE]
    /\ UNCHANGED <<decl, tree, host>>

ChildStep == Load \/ Scan \/ Copy \/ Baseline \/ Inventory \/ Execute \/ Judge \/ Score

-----------------------------------------------------------------------------
\* What the mutation process may hold.
BytesRead == [decl : Declarations \cup {NoDeclaration}, tree : Trees \cup {NoTree}]
Works == UNION {[D -> Fates \cup {"pending", "abnormal", "dropped"}] : D \in SUBSET Mutants}

Children ==
    [phase : {"idle", "load", "scan", "copy", "baseline", "inventory", "exec", "judge",
              "score", "exited"},
     config : Declarations \cup {NoDeclaration}, copy : BytesRead, domains : SUBSET Paths,
     at : Paths \cup {"none"}, work : Works, mutants : Nat, killed : Nat,
     status : {"none", "pass", "fail"}]

=============================================================================
