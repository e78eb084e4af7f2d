----------------------------- MODULE MCPlanner -----------------------------
(***************************************************************************)
(* Planner on every answer of up to two items with every kind of defect,   *)
(* and on some that are too long or no array at all.                       *)
(***************************************************************************)
EXTENDS Planner

CONSTANTS a, b, ghost

Items ==
  [id: {a, b, Missing}, role: {"backend", "ceo", Missing},
   deps: {{}, {a}, {b}, {a, b}, {ghost}, Missing, NotIterable}] \union {NoObject}

Plain(i) == [id |-> i, role |-> "backend", deps |-> {}]

Around == {"nothing", "fence", "prose", "brackets"}

\* Every sequence of items, and every way of wrapping a few of them.
MCAnswers ==
  [before: {"nothing"}, after: {"nothing"}, body: {"array"},
   items: {<<x>> : x \in Items} \union {<<x, y>> : x, y \in Items}]
    \union [before: Around, after: Around, body: {"array", "object", "none"},
            items: {<<>>, <<Plain(a)>>, <<Plain(a), Plain(b), Plain(ghost)>>}]
=============================================================================
