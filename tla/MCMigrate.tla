----------------------------- MODULE MCMigrate -----------------------------
(***************************************************************************)
(* Two command lines over one project: a source-root list that is src, one  *)
(* that leaves the repository, and one edit by the project.                 *)
(***************************************************************************)
EXTENDS Migrate, TLC

CONSTANTS r1, r2, src, up

MCRoots     == {src, up}
MCSafeRoots == {src}

Symmetry == Permutations(Runs)
=============================================================================
