---------------------------- MODULE MCMergeCases ----------------------------
(***************************************************************************)
(* Bases of up to three lines, repeated and blank lines included, edited   *)
(* into every text of up to three lines over the same alphabet.            *)
(***************************************************************************)
EXTENDS MergeCases

CONSTANTS a, b

SmallTexts(alphabet, n) ==
  {x \in {Text(s, nl) : s \in BoundedSeq(alphabet, n), nl \in BOOLEAN} : IsText(x)}

MCBases ==
  SmallTexts({a, Blank}, 2)
    \union {Text(s, TRUE) : s \in {<<a, b, a>>, <<a, a, b>>, <<a, Blank, b>>, <<a, b, Blank>>}}

MCEdited ==
  SmallTexts({a, Blank}, 2)
    \union {Text(s, TRUE) : s \in BoundedSeq({a, b, Blank}, 3) \ {<<>>}}
=============================================================================
