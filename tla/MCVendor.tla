------------------------------ MODULE MCVendor ------------------------------
(* A corpus of two upstream directories and one root-level file.            *)
EXTENDS Vendor

MCPaths == {"a", "b", "cache", "extra", "root", "seed", "ledger"}
MCDirOf == [p \in MCPaths |->
    CASE p \in {"a", "b", "cache"} -> "tools"
      [] p = "extra" -> "dev"
      [] p \in {"seed", "ledger"} -> "learning"
      [] OTHER -> "."]

UpstreamOrder == <<"tools", "dev">>
ProjectOrder  == <<"learning", "overrides">>

Holding(S, c) == [p \in MCPaths |-> IF p \in S THEN c ELSE Absent]

\* A release, and the next one: a file and the directory dev/ retired, the rest
\* rewritten, learning/ now with a seed, and a cache left by running its tools.
OldRelease == Holding({"a", "b", "extra", "root", "ledger"}, "old")
NewRelease == Holding({"a", "cache", "root", "seed", "ledger"}, "new")
MCCorpora  == {OldRelease, NewRelease}

MCEdits == {<<"cache", "own">>, <<"seed", "own">>, <<"ledger", "own">>}
=============================================================================
