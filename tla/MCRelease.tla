----------------------------- MODULE MCRelease -----------------------------
(***************************************************************************)
(* Source trees that differ from a sound one in a few respects, over one   *)
(* machine that has every tool and one whose documentation checkers die.   *)
(***************************************************************************)
EXTENDS Release

MCPairs == {[file |-> "a.py", code |-> "E501"], [file |-> "a.py", code |-> "S101"],
            [file |-> "b.py", code |-> "E501"]}
Line(f) == [file |-> f, code |-> "E501"]
Reported(n, m, k) == [p \in MCPairs |-> IF p = Line("a.py") THEN n
                                        ELSE IF p = Line("b.py") THEN m ELSE k]
MCFiles == {"a.py", "b.py"}

Entry(rule, kind) == [rule |-> rule, mechanism |-> kind, kind |-> kind,
                      rejects |-> TRUE, clean |-> TRUE, drifted |-> FALSE, known |-> TRUE]
Lawful == Entry("ARCH-001", "check")
Tested == [Entry("EVID-001", "node") EXCEPT !.mechanism = ""]
Copied == Entry("FLOW-009", "repository")
Proved == Entry("DIAG-014", "proof")

Tree == [discipline |-> {"module", "required", "cache", "product"},
         tools |-> {"pins", "excused", "binary"}, learning |-> {"seed", "note"},
         documents |-> {"guide", "contact"}]

Sound == [findings |-> Reported(1, 1, 0), shape |-> [f \in MCFiles |-> "v1"],
          documented |-> TRUE, contracts |-> 1, broken |-> FALSE,
          analysed |-> 1, typed |-> TRUE, pages |-> 1, warnings |-> FALSE, related |-> TRUE,
          entries |-> {Lawful, Tested, Copied, Proved},
          decided |-> {"ARCH-001", "EVID-001", "FLOW-009", "DIAG-014", "TEST-003"},
          automated |-> {<<"ARCH-001", "check">>, <<"EVID-001", "node">>,
                         <<"FLOW-009", "repository">>, <<"DIAG-014", "proof">>},
          stale |-> {}, suite |-> TRUE, tree |-> Tree]

With(e, f) == (Sound.entries \ {e}) \cup {f}

MCSources ==
    {Sound,
     [Sound EXCEPT !.findings = Reported(2, 0, 0), !.entries = @ \ {Copied},
                   !.automated = (@ \ {<<"DIAG-014", "proof">>}) \cup {<<"TEST-003", "check">>},
                   !.decided = @ \cup {"DIAG-017"}],
     [Sound EXCEPT !.findings = Reported(1, 0, 1), !.tree["documents"] = {},
                   !.entries = With(Lawful, [Lawful EXCEPT !.rejects = FALSE])],
     [Sound EXCEPT !.shape["a.py"] = "v2", !.documented = FALSE],
     [Sound EXCEPT !.entries = With(Tested, [Tested EXCEPT !.rejects = FALSE, !.clean = FALSE])],
     [Sound EXCEPT !.entries = With(Tested, [Tested EXCEPT !.rejects = FALSE, !.known = FALSE])],
     [Sound EXCEPT !.findings = Reported(2, 1, 0), !.documented = FALSE,
                   !.stale = {"navigation graph"}, !.tree["tools"] = @ \cup {"product", "leak"},
                   !.automated = @ \cup {<<"EVID-001", "check">>}]}

MCHosts == {{"ruff", "mypy", "pyright", "doxygen", "checkers"},
            {"ruff", "mypy", "pyright", "doxygen"}}

=============================================================================
