--------------------------- MODULE MCCloudRequests ---------------------------
(***************************************************************************)
(* Three requests of one user and one of another, two runs per window, in  *)
(* which the key client expires while requests are under way.              *)
(***************************************************************************)
EXTENDS Auth, TLC

CONSTANTS r1, r2, r3, s1, ann, bob

OwnerOf == [r \in Requests |-> IF r = s1 THEN bob ELSE ann]

\* The requests of one user are interchangeable.
RequestSymmetry == Permutations({r1, r2, r3})
==============================================================================
