----------------------------- MODULE MCFileStore -----------------------------
(***************************************************************************)
(* Two clients on one file of up to two lines.                             *)
(***************************************************************************)
EXTENDS FileStore, TLC

CONSTANTS a, b, c1, c2

MCDrafts ==
  {Text(s, TRUE) : s \in BoundedSeq({a, b}, 2) \ {<<>>}} \union {EmptyText, Text(<<b>>, FALSE)}

MCInitial == {Text(<<a, b>>, TRUE), Text(<<a, a>>, FALSE)}

ClientSymmetry == Permutations(Clients)
===============================================================================
