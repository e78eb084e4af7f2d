------------------------------ MODULE MergeCases ------------------------------
(***************************************************************************)
(* three_way_merge on every base and every pair of edited texts of a small *)
(* set: the pair is chosen one side at a time, then merged.                *)
(***************************************************************************)
EXTENDS ThreeWayMerge, FiniteSets

CONSTANTS Bases,     \* the common ancestors
          Edited,    \* what either side may have turned it into
          NoText     \* no merged text

AllLines == (UNION {ToSet(x.lines) : x \in Bases \union Edited}) \union {Blank}

ASSUME CasesAssumption == Bases \union Edited \subseteq Texts(AllLines)

VARIABLES base, theirs, ours, merged

mergeVars == <<base, theirs, ours, merged>>

MergeInit ==
  /\ base \in Bases
  /\ theirs = base
  /\ ours \in Edited
  /\ merged = NoText

EditTheirs ==
  /\ merged = NoText
  /\ theirs = base
  /\ theirs' \in Edited
  /\ UNCHANGED <<base, ours, merged>>

MergeThem ==
  /\ merged = NoText
  /\ CanMerge(base, theirs, ours)
  /\ merged' = Merge(base, theirs, ours)
  /\ UNCHANGED <<base, theirs, ours>>

MergeNext == EditTheirs \/ MergeThem

MergeSpec == MergeInit /\ [][MergeNext]_mergeVars

------------------------------------------------------------------------------

\* Splicing from the back gives every edit the place it was made at: the result
\* is the position-by-position union of both sides' edits, and it ends in a
\* newline if either side does.
MergeIsUnion ==
  merged # NoText =>
    /\ merged = Join(MergedLines(base.lines, Edits(base.lines, theirs.lines)
                                               \union Edits(base.lines, ours.lines)),
                     theirs.nl \/ ours.nl)
    /\ theirs.nl \/ ours.nl => merged.nl

\* Nothing is lost and nothing is invented: every line but the blank one occurs
\* in the result as often as both sides' changes to its number of occurrences
\* say.  Blank lines are left out: the rule for the final newline may add
\* or drop one at the end.
LinesAccounted ==
  merged # NoText =>
    \A x \in (UNION {ToSet(base.lines), ToSet(theirs.lines), ToSet(ours.lines),
                     ToSet(merged.lines)}) \ {Blank} :
      Count(merged.lines, x) + Count(base.lines, x) =
        Count(theirs.lines, x) + Count(ours.lines, x)
===============================================================================
