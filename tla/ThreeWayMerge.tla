---------------------------- MODULE ThreeWayMerge ----------------------------
(***************************************************************************)
(* three_way_merge of ai_company/conflict.py and the opcodes it gets from  *)
(* difflib.  A text is its splitlines() and whether it ends in a newline;  *)
(* a line is a model value.  Positions are Python's: line i of a sequence  *)
(* s is s[i + 1].                                                          *)
(*                                                                         *)
(* Abstracted: the characters of a line.  "\r\n" and the other separators  *)
(* splitlines() knows come out of a merge as "\n"; they have no model here.*)
(***************************************************************************)
EXTENDS Integers, SequencesExt

CONSTANT Blank      \* the empty line

Text(lines, nl) == [lines |-> lines, nl |-> nl]
EmptyText == Text(<<>>, FALSE)

\* The pairs of lines and newline flag that are the splitlines() of some string.
IsText(x) == IF x.lines = <<>> THEN ~ x.nl ELSE x.nl \/ Last(x.lines) # Blank

Texts(S) == {x \in [lines : Seq(S), nl : BOOLEAN] : IsText(x)}

\* "\n".join(lines), with or without a final "\n", split into lines again.
Join(lines, nl) ==
  IF nl THEN Text(IF lines = <<>> THEN <<Blank>> ELSE lines, TRUE)
  ELSE IF lines # <<>> /\ Last(lines) = Blank THEN Text(Front(lines), Len(lines) > 1)
  ELSE Text(lines, FALSE)

------------------------------------------------------------------------------
(* difflib.SequenceMatcher(a, b, autojunk=False). *)

\* A window is <<alo, ahi, blo, bhi>>: lines alo..ahi-1 of a, blo..bhi-1 of b.
Windows(a, b) == (0..Len(a)) \X (0..Len(a)) \X (0..Len(b)) \X (0..Len(b))

\* Runs of equal lines: a[i:i+k] = b[j:j+k] inside the window.
Runs(a, b, w) ==
  {r \in (w[1]..w[2]) \X (w[3]..w[4]) \X (1..(w[2] - w[1])) :
     /\ r[1] + r[3] <= w[2]
     /\ r[2] + r[3] <= w[4]
     /\ \A n \in 1..r[3] : a[r[1] + n] = b[r[2] + n]}

\* find_longest_match: the longest run, the first in a, the first in b.
Better(r, s) ==
  \/ r[3] > s[3]
  \/ r[3] = s[3] /\ (r[1] < s[1] \/ (r[1] = s[1] /\ r[2] <= s[2]))

Best(runs) == CHOOSE r \in runs : \A s \in runs : Better(r, s)

\* What is left of a window on either side of a run.
LeftOf(w, r) == <<w[1], r[1], w[3], r[2]>>
RightOf(w, r) == <<r[1] + r[3], w[2], r[2] + r[3], w[4]>>

\* get_matching_blocks, as the set of matched pairs of positions: the longest
\* run, then the same to the left and to the right of it.
Matched(a, b) ==
  LET matched[w \in Windows(a, b)] ==
        LET runs == Runs(a, b, w)
            r == Best(runs)
        IN IF runs = {} THEN {}
           ELSE {<<r[1] + n, r[2] + n>> : n \in 0..(r[3] - 1)}
                  \union matched[LeftOf(w, r)] \union matched[RightOf(w, r)]
  IN matched[<<0, Len(a), 0, Len(b)>>]

\* With the two ends, which match each other.
Anchors(a, b) == Matched(a, b) \union {<<-1, -1>>, <<Len(a), Len(b)>>}

\* q is the next pair after p.
Follows(pairs, p, q) ==
  p[1] < q[1] /\ \A r \in pairs : ~ (p[1] < r[1] /\ r[1] < q[1])

\* _diff_opcodes without its "equal" entries: between two consecutive matched
\* pairs (or the ends), lines from..to-1 of a give way to a segment of b.
Edits(a, b) ==
  LET pairs == Anchors(a, b)
  IN {[from |-> pq[1][1] + 1, to |-> pq[2][1],
       segment |-> SubSeq(b, pq[1][2] + 2, pq[2][2])] :
        pq \in {x \in pairs \X pairs :
                  /\ Follows(pairs, x[1], x[2])
                  /\ x[2] # <<x[1][1] + 1, x[1][2] + 1>>}}

------------------------------------------------------------------------------

\* _touched_ranges: an insertion touches the line it comes before.
TouchedEnd(e) == IF e.to > e.from THEN e.to ELSE e.from + 1

\* Bug: only ranges with the same start collide.
OverlapAtStart(e, f) == e.from = f.from

Overlap(e, f) == e.from < TouchedEnd(f) /\ f.from < TouchedEnd(e)

Conflicting(es, fs) == \E e \in es, f \in fs : Overlap(e, f)

\* One splice: lines from..to-1 give way to the segment.
Replaced(lines, e) ==
  SubSeq(lines, 1, e.from) \o e.segment \o SubSeq(lines, e.to + 1, Len(lines))

\* The edit that starts before line p.
EditAt(es, p) == CHOOSE e \in es : e.from = p

\* Bug: the splices are made from the front.
SpliceForward(lines, es) ==
  LET after[p \in -1..Len(lines)] ==
        IF p = -1 THEN lines
        ELSE IF \E e \in es : e.from = p
             THEN Replaced(after[p - 1], EditAt(es, p))
             ELSE after[p - 1]
  IN after[Len(lines)]

\* The splices, last position first so that earlier positions stay valid:
\* after[p] is the list once everything from line p on is spliced.  (Two edits
\* that start together are a conflict, so the stable sort decides nothing.)
Splice(lines, es) ==
  LET after[p \in 0..(Len(lines) + 1)] ==
        IF p = Len(lines) + 1 THEN lines
        ELSE IF \E e \in es : e.from = p
             THEN Replaced(after[p + 1], EditAt(es, p))
             ELSE after[p + 1]
  IN after[0]

\* three_way_merge: either a conflict (None) or a merged text.
CanMerge(base, theirs, ours) ==
  ~ Conflicting(Edits(base.lines, theirs.lines), Edits(base.lines, ours.lines))

Merge(base, theirs, ours) ==
  Join(Splice(base.lines, Edits(base.lines, theirs.lines)
                            \union Edits(base.lines, ours.lines)),
       theirs.nl \/ ours.nl)

------------------------------------------------------------------------------
(* What a merge should be, without difflib's order of splices. *)

\* Position by position: what either side put before line i, then line i
\* unless one of them took it away.
MergedLines(base, es) ==
  LET Inserted(i) == IF \E e \in es : e.from = i THEN EditAt(es, i).segment ELSE <<>>
      Kept(i) == IF i < Len(base) /\ \A e \in es : ~ (e.from <= i /\ i < e.to)
                 THEN <<base[i + 1]>> ELSE <<>>
      rest[i \in 0..(Len(base) + 1)] ==
        IF i = Len(base) + 1 THEN <<>> ELSE Inserted(i) \o Kept(i) \o rest[i + 1]
  IN rest[0]

Count(lines, x) == Cardinality({i \in 1..Len(lines) : lines[i] = x})
==============================================================================
