----------------------------- MODULE MCRepoRun -----------------------------
(***************************************************************************)
(* Up to two rounds of two tasks over two files, one loaded and one new.   *)
(***************************************************************************)
EXTENDS RepoRun

CONSTANTS t1, t2, app, tests

\* Every plan over the two tasks that parse_plan lets through.
Plans == {g \in [Tasks -> SUBSET Tasks] : Acyclic(g)}
=============================================================================
