--------------------------- MODULE FileStoreProofs ---------------------------
(***************************************************************************)
(* Proofs about three_way_merge (ThreeWayMerge, MergeCases) and FileStore, *)
(* for every set of texts, every number of clients and every bound.        *)
(*                                                                         *)
(* The way: difflib's recursion matches equal lines in order, so the edits *)
(* it yields never meet and replay one text into the other (Replay).       *)
(* Edits of both sides that do not overlap can be spliced from the back:   *)
(* an edit finds its lines as they were in the base (Untouched), so it     *)
(* changes the number of occurrences of a line as much as it would alone   *)
(* (Accounting), and the result is the position-by-position union          *)
(* (SpliceIsMergedLines).  On this the store's invariant rests.            *)
(***************************************************************************)
EXTENDS FileStore, MergeCases, FiniteSetTheorems, WellFoundedInduction,
        SequenceTheorems, TLAPS

------------------------------------------------------------------------------
(* Induction over the naturals, in the form these proofs use. *)

\* A set of naturals that is not empty has a least element.
LEMMA LeastElement ==
  ASSUME NEW T, T \subseteq Nat, T # {}
  PROVE  \E x \in T : \A y \in T : x <= y
<1>1. IsWellFoundedOn(OpToRel(<, Nat), Nat)
  BY NatLessThanWellFounded
<1>2. PICK x \in T : \A y \in T : ~ (<<y, x>> \in OpToRel(<, Nat))
  BY <1>1, WFMin
<1>3. \A y \in T : y < x => <<y, x>> \in OpToRel(<, Nat)
  BY DEF OpToRel
<1>4. \A y \in T : ~ (y < x)
  BY <1>2, <1>3, Zenon
<1> HIDE <1>2, <1>3
<1> QED
  BY <1>4

\* What holds of n, and of k whenever it holds of k + 1, holds down to 0.
LEMMA Downward ==
  ASSUME NEW n \in Nat, NEW G, n \in G,
         \A k \in 0..(n - 1) : k + 1 \in G => k \in G
  PROVE  0..n \subseteq G
<1> DEFINE T == {k \in Nat : k <= n /\ n - k \notin G}
<1> SUFFICES ASSUME NEW j \in 0..n, j \notin G PROVE FALSE
  OBVIOUS
<1>0. n - j \in T
  <2>1. n - j \in Nat /\ n - j <= n /\ n - (n - j) = j
    OBVIOUS
  <2> QED
    BY <2>1
<1>1. PICK x \in T : \A y \in T : x <= y
  BY <1>0, LeastElement
<1>2. x # 0
  OBVIOUS
<1>3. x - 1 \notin T /\ x - 1 \in Nat
  BY <1>1, <1>2
<1>4. n - (x - 1) = (n - x) + 1 /\ n - x \in 0..(n - 1)
  BY <1>2
<1>5. (n - x) + 1 \in G
  BY <1>3, <1>4
<1> QED
  BY <1>4, <1>5

\* What holds of k whenever it holds of every smaller number holds of all.
LEMMA Upward ==
  ASSUME NEW G, \A k \in Nat : (\A i \in 0..(k - 1) : i \in G) => k \in G
  PROVE  Nat \subseteq G
<1> DEFINE T == {k \in Nat : k \notin G}
<1> SUFFICES ASSUME T # {} PROVE FALSE
  OBVIOUS
<1>1. PICK x \in T : \A y \in T : x <= y
  BY LeastElement
<1>2. \A i \in 0..(x - 1) : i \in G
  BY <1>1
<1> QED
  BY <1>2

------------------------------------------------------------------------------
(* Parts of a list, and how often a line occurs in one. *)

LEMMA Cut ==
  ASSUME NEW S, NEW s \in Seq(S), NEW m \in 1..(Len(s) + 1), NEW n \in 0..Len(s)
  PROVE  /\ SubSeq(s, m, n) \in Seq(S)
         /\ Len(SubSeq(s, m, n)) = IF m <= n THEN n - m + 1 ELSE 0
         /\ \A i \in 1..(n - m + 1) : SubSeq(s, m, n)[i] = s[m + i - 1]
<1>1. \A i \in m..n : s[i] \in S
  BY ElementOfSeq
<1> QED
  BY <1>1, SubSeqProperties

\* The first n lines of a list.
LEMMA Prefix ==
  ASSUME NEW S, NEW s \in Seq(S), NEW n \in 0..Len(s)
  PROVE  /\ SubSeq(s, 1, n) \in Seq(S)
         /\ Len(SubSeq(s, 1, n)) = n
         /\ \A i \in 1..n : SubSeq(s, 1, n)[i] = s[i]
<1>1. SubSeq(s, 1, n) \in Seq(S) /\ Len(SubSeq(s, 1, n)) = n
  OBVIOUS
<1>2. \A i \in 1..n : SubSeq(s, 1, n)[i] = s[i]
  OBVIOUS
<1> QED
  BY <1>1, <1>2

\* A prefix falls into a shorter one and what follows it.
LEMMA HeadAndRest ==
  ASSUME NEW S, NEW s \in Seq(S), NEW i \in 0..Len(s), NEW j \in i..Len(s)
  PROVE  SubSeq(s, 1, j) = SubSeq(s, 1, i) \o SubSeq(s, i + 1, j)
<1>1. 1 \in 1..(Len(s) + 1) /\ i \in (1 - 1)..Len(s)
  OBVIOUS
<1> QED
  BY <1>1, ConcatAdjacentSubSeq

LEMMA CountType ==
  ASSUME NEW S, NEW s \in Seq(S), NEW x
  PROVE  Count(s, x) \in Nat
<1>1. IsFiniteSet(1..Len(s))
  BY FS_Interval
<1>2. IsFiniteSet({i \in 1..Len(s) : s[i] = x})
  BY <1>1, FS_Subset
<1> QED
  BY <1>2, FS_CardinalityType DEF Count

LEMMA CountEmpty ==
  ASSUME NEW x
  PROVE  Count(<<>>, x) = 0
<1>1. {i \in 1..Len(<<>>) : <<>>[i] = x} = {}
  OBVIOUS
<1>2. Cardinality({}) = 0
  BY FS_EmptySet
<1> QED
  BY <1>1, <1>2, Zenon DEF Count

\* Occurrences add up under concatenation.
LEMMA CountConcat ==
  ASSUME NEW S, NEW s \in Seq(S), NEW t \in Seq(S), NEW x
  PROVE  Count(s \o t, x) = Count(s, x) + Count(t, x)
<1> DEFINE A == {i \in 1..Len(s) : s[i] = x}
           B == {i \in 1..Len(t) : t[i] = x}
           C == {i \in 1..Len(s \o t) : (s \o t)[i] = x}
           D == {i \in (Len(s) + 1)..Len(s \o t) : (s \o t)[i] = x}
           f == [i \in B |-> i + Len(s)]
<1>1. /\ Len(s \o t) = Len(s) + Len(t)
      /\ \A i \in 1..Len(s) : (s \o t)[i] = s[i]
      /\ \A i \in 1..Len(t) : (s \o t)[i + Len(s)] = t[i]
  <2>1. \A i \in 1..Len(s) + Len(t) : (s \o t)[i] = IF i <= Len(s) THEN s[i] ELSE t[i - Len(s)]
    BY ConcatProperties
  <2>2. \A i \in 1..Len(t) : (s \o t)[i + Len(s)] = t[(i + Len(s)) - Len(s)] /\ (i + Len(s)) - Len(s) = i
    BY <2>1
  <2> QED
    BY <2>1, <2>2
<1>2. IsFiniteSet(A) /\ IsFiniteSet(B) /\ IsFiniteSet(D)
  <2>1. Len(s) \in Int /\ Len(t) \in Int /\ Len(s \o t) \in Int /\ Len(s) + 1 \in Int
    BY <1>1
  <2>2. /\ IsFiniteSet(1..Len(s)) /\ IsFiniteSet(1..Len(t))
        /\ IsFiniteSet((Len(s) + 1)..Len(s \o t))
    BY <2>1, FS_Interval
  <2>3. A \in SUBSET (1..Len(s)) /\ B \in SUBSET (1..Len(t)) /\ D \in SUBSET ((Len(s) + 1)..Len(s \o t))
    OBVIOUS
  <2> HIDE DEF A, B, D
  <2> QED
    BY <2>2, <2>3, FS_Subset
<1>3. C = A \union D /\ A \intersect D = {}
  BY <1>1
<1>4. f \in Bijection(B, D)
  <2>1. f \in [B -> D]
    BY <1>1
  <2>2. ASSUME NEW i \in B, NEW j \in B, f[i] = f[j] PROVE i = j
    BY <2>2
  <2>3. ASSUME NEW d \in D PROVE \E i \in B : f[i] = d
    <3>1. d - Len(s) \in 1..Len(t) /\ (d - Len(s)) + Len(s) = d
      BY <1>1
    <3>2. d - Len(s) \in B
      BY <1>1, <3>1
    <3> QED
      BY <3>1, <3>2
  <2> QED
    BY <2>1, <2>2, <2>3 DEF Bijection, Injection, Surjection, IsInjective
<1>5. Cardinality(D) = Cardinality(B)
  <2>1. ExistsBijection(B, D)
    BY <1>4, Zenon DEF ExistsBijection
  <2> HIDE DEF B, D
  <2> QED
    BY <1>2, <2>1, FS_Bijection
<1>6. Cardinality(A) \in Nat /\ Cardinality(B) \in Nat
  BY <1>2, FS_CardinalityType
<1>7. Cardinality(C) = Cardinality(A) + Cardinality(B)
  <2>1. Cardinality({}) = 0
    BY FS_EmptySet
  <2> HIDE DEF A, B, C, D
  <2>2. Cardinality(A \union D) =
          Cardinality(A) + Cardinality(D) - Cardinality(A \intersect D)
    BY <1>2, FS_Union
  <2>3. Cardinality(C) = Cardinality(A \union D) /\ Cardinality(A \intersect D) = 0
    BY <1>3, <2>1, Zenon
  <2> QED
    BY <1>5, <1>6, <2>2, <2>3
<1> QED
  BY <1>7 DEF Count

\* A line does not occur in a list of another one.
LEMMA CountOther ==
  ASSUME NEW y, NEW x, x # y
  PROVE  Count(<<y>>, x) = 0
<1>1. {i \in 1..Len(<<y>>) : <<y>>[i] = x} = {}
  OBVIOUS
<1>2. Cardinality({}) = 0
  BY FS_EmptySet
<1> QED
  BY <1>1, <1>2, Zenon DEF Count

\* What makes a record the splitlines() of some string.
LEMMA TextsIntro ==
  ASSUME NEW S, NEW s \in Seq(S), NEW nl \in BOOLEAN,
         IF s = <<>> THEN ~ nl ELSE nl \/ Last(s) # Blank
  PROVE  /\ Text(s, nl) \in Texts(S)
         /\ Text(s, nl).lines = s
         /\ Text(s, nl).nl = nl
<1> DEFINE t == Text(s, nl)
<1>1. t \in [lines : Seq(S), nl : BOOLEAN] /\ t.lines = s /\ t.nl = nl
  BY DEF Text
<1>2. IsText(t)
  BY <1>1 DEF IsText
<1> QED
  BY <1>1, <1>2 DEF Texts

LEMMA TextsElim ==
  ASSUME NEW S, NEW t \in Texts(S)
  PROVE  /\ t.lines \in Seq(S)
         /\ t.nl \in BOOLEAN
BY DEF Texts

\* Join only ever adds or drops a blank last line.
LEMMA JoinCounts ==
  ASSUME NEW S, Blank \in S, NEW s \in Seq(S), NEW nl \in BOOLEAN
  PROVE  /\ Join(s, nl) \in Texts(S)
         /\ \A x : x # Blank => Count(Join(s, nl).lines, x) = Count(s, x)
<1>1. CASE nl
  <2>1. CASE s = <<>>
    <3>1. Join(s, nl) = Text(<<Blank>>, TRUE)
      BY <1>1, <2>1 DEF Join
    <3>2. <<Blank>> \in Seq(S) /\ <<Blank>> # <<>>
      OBVIOUS
    <3>3. Join(s, nl) \in Texts(S) /\ Join(s, nl).lines = <<Blank>>
      BY <3>1, <3>2, TextsIntro
    <3>4. \A x : x # Blank => Count(<<Blank>>, x) = 0
      BY CountOther
    <3>5. \A x : Count(s, x) = 0
      BY <2>1, CountEmpty
    <3> QED
      BY <3>3, <3>4, <3>5
  <2>2. CASE s # <<>>
    <3>1. Join(s, nl) = Text(s, TRUE)
      BY <1>1, <2>2 DEF Join
    <3> QED
      BY <2>2, <3>1, TextsIntro
  <2> QED
    BY <2>1, <2>2
<1>2. CASE ~ nl /\ s # <<>> /\ Last(s) = Blank
  <2>1. Join(s, nl) = Text(Front(s), Len(s) > 1)
    BY <1>2 DEF Join
  <2>2. Len(s) \in Nat \ {0}
    BY <1>2, EmptySeq, LenProperties
  <2>3. /\ Front(s) \in Seq(S)
        /\ Len(Front(s)) = Len(s) - 1
        /\ s = Front(s) \o <<Blank>>
    <3>1. Front(s) = SubSeq(s, 1, Len(s) - 1)
      BY DEF Front
    <3>2. SubSeq(s, 1, Len(s)) = SubSeq(s, 1, Len(s) - 1) \o <<s[Len(s)]>>
      BY <2>2, SubSeqRecursiveSecond
    <3>3. s[Len(s)] = Blank
      BY <1>2 DEF Last
    <3>4. SubSeq(s, 1, Len(s) - 1) \in Seq(S) /\ Len(SubSeq(s, 1, Len(s) - 1)) = Len(s) - 1
      <4>1. Len(s) - 1 \in 0..Len(s)
        BY <2>2
      <4> QED
        BY <4>1, Prefix
    <3> QED
      BY <3>1, <3>2, <3>3, <3>4, SubSeqFull
  <2>4. \A x : x # Blank => Count(Front(s), x) = Count(s, x)
    <3> SUFFICES ASSUME NEW x, x # Blank PROVE Count(Front(s), x) = Count(s, x)
      OBVIOUS
    <3>1. <<Blank>> \in Seq(S)
      OBVIOUS
    <3>2. Count(Front(s) \o <<Blank>>, x) = Count(Front(s), x) + Count(<<Blank>>, x)
      BY <2>3, <3>1, CountConcat
    <3>3. Count(Front(s) \o <<Blank>>, x) = Count(s, x)
      BY <2>3, Zenon
    <3>4. Count(<<Blank>>, x) = 0 /\ Count(Front(s), x) \in Nat
      BY <2>3, CountOther, CountType
    <3> QED
      BY <3>2, <3>3, <3>4
  <2>5. Front(s) = <<>> <=> ~ (Len(s) > 1)
    BY <2>2, <2>3, EmptySeq
  <2>6. (Len(s) > 1) \in BOOLEAN
    OBVIOUS
  <2>7. Join(s, nl) \in Texts(S) /\ Join(s, nl).lines = Front(s)
    <3>1. PICK u \in Seq(S) : u = Front(s)
      BY <2>3
    <3>2. PICK ends \in BOOLEAN : ends = (Len(s) > 1)
      BY <2>6
    <3>3. IF u = <<>> THEN ~ ends ELSE ends \/ Last(u) # Blank
      BY <2>5, <3>1, <3>2
    <3>4. Text(u, ends) \in Texts(S) /\ Text(u, ends).lines = u
      BY <3>3, TextsIntro
    <3> QED
      BY <2>1, <3>1, <3>2, <3>4, Zenon
  <2> QED
    BY <2>4, <2>7
<1>3. CASE ~ nl /\ (s = <<>> \/ Last(s) # Blank)
  <2>1. Join(s, nl) = Text(s, FALSE)
    BY <1>3 DEF Join
  <2> QED
    BY <1>3, <2>1, TextsIntro
<1> QED
  BY <1>1, <1>2, <1>3

------------------------------------------------------------------------------
(* Splicing edits that do not meet. *)

Before(e, f) == e.from < f.from /\ e.to <= f.from

\* Edits of a list of n lines, with segments over S, of which no two meet.
EditsOver(n, S, es) ==
  /\ \A e \in es : e.from \in 0..n /\ e.to \in e.from..n /\ e.segment \in Seq(S)
  /\ \A e, f \in es : e = f \/ Before(e, f) \/ Before(f, e)

\* The intermediate lists of Splice.
Afters(lines, es, after) ==
  after = [p \in 0..(Len(lines) + 1) |->
             IF p = Len(lines) + 1 THEN lines
             ELSE IF \E e \in es : e.from = p
                  THEN Replaced(after[p + 1], EditAt(es, p))
                  ELSE after[p + 1]]

\* Splice's recursion defines a function, and Splice is its last value.
LEMMA SpliceIsRecursive ==
  ASSUME NEW lines, Len(lines) \in Nat, NEW es
  PROVE  \E after : Afters(lines, es, after) /\ Splice(lines, es) = after[0]
<1> DEFINE n == Len(lines)
           Step(p, next) == IF \E e \in es : e.from = p
                            THEN Replaced(next, EditAt(es, p)) ELSE next
           Until(k, g) == g = [p \in k..(n + 1) |->
                                 IF p = n + 1 THEN lines ELSE Step(p, g[p + 1])]
           G == {k \in 0..(n + 1) : \E g : Until(k, g)}
<1>1. n + 1 \in G
  <2> DEFINE g == [p \in (n + 1)..(n + 1) |-> lines]
  <2>1. g = [p \in (n + 1)..(n + 1) |-> IF p = n + 1 THEN lines ELSE Step(p, g[p + 1])]
    <3>1. \A p \in (n + 1)..(n + 1) : p = n + 1
      OBVIOUS
    <3> QED
      BY <3>1, Zenon
  <2>2. n + 1 \in 0..(n + 1)
    OBVIOUS
  <2> QED
    BY <2>1, <2>2
<1>2. ASSUME NEW k \in 0..n, k + 1 \in G PROVE k \in G
  <2>1. PICK g : Until(k + 1, g)
    BY <1>2
  <2> DEFINE h == [p \in k..(n + 1) |-> IF p = k THEN Step(k, g[k + 1]) ELSE g[p]]
  <2> HIDE DEF Step
  <2>2. \A p \in (k + 1)..(n + 1) : g[p] = IF p = n + 1 THEN lines ELSE Step(p, g[p + 1])
    BY <2>1
  <2>3. \A p \in (k + 1)..(n + 1) : h[p] = g[p]
    OBVIOUS
  <2>4. h[k] = Step(k, h[k + 1])
    BY <2>3
  <2>5. ASSUME NEW p \in k..(n + 1)
        PROVE  h[p] = IF p = n + 1 THEN lines ELSE Step(p, h[p + 1])
    <3>1. CASE p = k
      BY <2>4, <3>1
    <3>2. CASE p # k
      BY <2>2, <2>3, <3>2
    <3> QED
      BY <3>1, <3>2
  <2>6. Until(k, h)
    <3> HIDE DEF h
    <3> SUFFICES h = [p \in k..(n + 1) |-> h[p]]
      BY <2>5, Zenon
    <3> QED
      BY DEF h
  <2>7. k \in 0..(n + 1)
    OBVIOUS
  <2> HIDE DEF Until
  <2> QED
    BY <2>6, <2>7
<1>3. 0 \in G
  <2> HIDE DEF G
  <2>1. 0..(n + 1) \subseteq G
    BY <1>1, <1>2, Downward
  <2> QED
    BY <2>1
<1>4. PICK g : Until(0, g)
  BY <1>3
<1>5. Afters(lines, es, g)
  BY <1>4 DEF Afters
<1>6. Splice(lines, es) = (CHOOSE after : Afters(lines, es, after))[0]
  BY DEF Splice, Afters
<1> QED
  BY <1>5, <1>6, Zenon

\* Each step of Splice makes the edit that starts there, if there is one.
LEMMA SpliceSteps ==
  ASSUME NEW lines, Len(lines) \in Nat, NEW S, NEW es, EditsOver(Len(lines), S, es),
         NEW after, Afters(lines, es, after)
  PROVE  /\ after[Len(lines) + 1] = lines
         /\ \A p \in 0..Len(lines) : (\A e \in es : e.from # p) => after[p] = after[p + 1]
         /\ \A e \in es : after[e.from] = Replaced(after[e.from + 1], e)
<1> DEFINE n == Len(lines)
<1>1. \A p \in 0..(n + 1) :
        after[p] = IF p = n + 1 THEN lines
                   ELSE IF \E e \in es : e.from = p
                        THEN Replaced(after[p + 1], EditAt(es, p))
                        ELSE after[p + 1]
  BY DEF Afters
<1>2. \A e \in es : EditAt(es, e.from) = e /\ e.from \in 0..n
  BY DEF EditsOver, Before, EditAt
<1>3. \A p \in 0..n : p \in 0..(n + 1) /\ p # n + 1
  OBVIOUS
<1>4. n + 1 \in 0..(n + 1)
  OBVIOUS
<1>5. \A e \in es : after[e.from] = Replaced(after[e.from + 1], e)
  <2> TAKE e \in es
  <2>1. e.from \in 0..(n + 1) /\ e.from # n + 1
    BY <1>2, <1>3
  <2> QED
    BY <1>1, <1>2, <2>1, Zenon
<1> QED
  BY <1>1, <1>3, <1>4, <1>5, Zenon

\* Lines i..j-1 give way to t.
Spliced(l, i, j, t) == SubSeq(l, 1, i) \o t \o SubSeq(l, j + 1, Len(l))

SplicedRight(l, i, j, t) == SubSeq(l, 1, i) \o (t \o SubSeq(l, j + 1, Len(l)))

LEMMA SplicedIsSplicedRight ==
  ASSUME NEW S, NEW l \in Seq(S), NEW i \in 0..Len(l), NEW j \in i..Len(l), NEW t \in Seq(S)
  PROVE  Spliced(l, i, j, t) = SplicedRight(l, i, j, t)
<1>1. PICK head \in Seq(S) : head = SubSeq(l, 1, i)
  <2>1. SubSeq(l, 1, i) \in Seq(S)
    BY Prefix
  <2> QED
    BY <2>1
<1>2. PICK tail \in Seq(S) : tail = SubSeq(l, j + 1, Len(l))
  <2>1. j + 1 \in 1..(Len(l) + 1) /\ Len(l) \in 0..Len(l)
    OBVIOUS
  <2>2. SubSeq(l, j + 1, Len(l)) \in Seq(S)
    BY <2>1, Cut
  <2> QED
    BY <2>2
<1>3. PICK rest \in Seq(S) : rest = t \o tail
  BY <1>2, ConcatProperties
<1>4. (head \o t) \o tail = head \o rest
  BY <1>3, ConcatAssociative, SMTT(30)
<1> QED
  BY <1>1, <1>2, <1>3, <1>4, Zenon DEF Spliced, SplicedRight

\* A splice leaves the lines before it alone.
LEMMA OneCut ==
  ASSUME NEW S, NEW l \in Seq(S), NEW i \in 0..Len(l), NEW j \in i..Len(l), NEW t \in Seq(S)
  PROVE  /\ Spliced(l, i, j, t) \in Seq(S)
         /\ i <= Len(Spliced(l, i, j, t))
         /\ \A k \in 1..i : Spliced(l, i, j, t)[k] = l[k]
<1>1. PICK head \in Seq(S) : head = SubSeq(l, 1, i)
  <2>1. SubSeq(l, 1, i) \in Seq(S)
    BY Prefix
  <2> QED
    BY <2>1
<1>2. PICK tail \in Seq(S) : tail = SubSeq(l, j + 1, Len(l))
  <2>1. j + 1 \in 1..(Len(l) + 1) /\ Len(l) \in 0..Len(l)
    OBVIOUS
  <2>2. SubSeq(l, j + 1, Len(l)) \in Seq(S)
    BY <2>1, Cut
  <2> QED
    BY <2>2
<1>3. Len(head) = i /\ \A k \in 1..i : head[k] = l[k]
  BY <1>1, Prefix
<1>4. PICK rest \in Seq(S) : rest = t \o tail
  BY <1>2, ConcatProperties
<1>5. SplicedRight(l, i, j, t) = head \o rest
  BY <1>1, <1>2, <1>4, Zenon DEF SplicedRight
<1>6. head \o rest \in Seq(S) /\ Len(head \o rest) = Len(head) + Len(rest)
  BY ConcatProperties
<1>7. \A k \in 1..(Len(head) + Len(rest)) :
        (head \o rest)[k] = IF k <= Len(head) THEN head[k] ELSE rest[k - Len(head)]
  BY ConcatProperties
<1>8. \A k \in 1..i : (head \o rest)[k] = l[k]
  BY <1>3, <1>7
<1>9. i <= Len(head \o rest)
  BY <1>3, <1>6
<1>10. Spliced(l, i, j, t) = head \o rest
  BY <1>5, SplicedIsSplicedRight
<1> QED
  BY <1>6, <1>8, <1>9, <1>10, Zenon

\* The same for an edit record.
LEMMA OneSplice ==
  ASSUME NEW S, NEW l \in Seq(S), NEW e, e.from \in 0..Len(l), e.to \in e.from..Len(l),
         e.segment \in Seq(S)
  PROVE  /\ Replaced(l, e) \in Seq(S)
         /\ e.from <= Len(Replaced(l, e))
         /\ \A i \in 1..e.from : Replaced(l, e)[i] = l[i]
<1>1. Replaced(l, e) = Spliced(l, e.from, e.to, e.segment)
  BY Zenon DEF Replaced, Spliced
<1>2. PICK i, j, t : i = e.from /\ j = e.to /\ t = e.segment
  OBVIOUS
<1>3. i \in 0..Len(l) /\ j \in i..Len(l) /\ t \in Seq(S)
  BY <1>2
<1>4. /\ Spliced(l, i, j, t) \in Seq(S)
      /\ i <= Len(Spliced(l, i, j, t))
      /\ \A k \in 1..i : Spliced(l, i, j, t)[k] = l[k]
  BY <1>3, OneCut
<1> QED
  BY <1>1, <1>2, <1>4

\* What a splice adds to and takes from the number of a line's occurrences.
LEMMA CountCut ==
  ASSUME NEW S, NEW l \in Seq(S), NEW i \in 0..Len(l), NEW j \in i..Len(l),
         NEW t \in Seq(S), NEW x
  PROVE  Count(Spliced(l, i, j, t), x) + Count(SubSeq(l, i + 1, j), x)
           = Count(l, x) + Count(t, x)
<1>1. PICK head \in Seq(S) : head = SubSeq(l, 1, i)
  <2>1. SubSeq(l, 1, i) \in Seq(S)
    BY Prefix
  <2> QED
    BY <2>1
<1>2. PICK mid \in Seq(S) : mid = SubSeq(l, i + 1, j)
  <2>1. i + 1 \in 1..(Len(l) + 1) /\ j \in 0..Len(l)
    OBVIOUS
  <2>2. SubSeq(l, i + 1, j) \in Seq(S)
    BY <2>1, Cut
  <2> QED
    BY <2>2
<1>3. PICK tail \in Seq(S) : tail = SubSeq(l, j + 1, Len(l))
  <2>1. j + 1 \in 1..(Len(l) + 1) /\ Len(l) \in 0..Len(l)
    OBVIOUS
  <2>2. SubSeq(l, j + 1, Len(l)) \in Seq(S)
    BY <2>1, Cut
  <2> QED
    BY <2>2
<1>4. l = (head \o mid) \o tail
  <2>1. SubSeq(l, 1, j) = SubSeq(l, 1, i) \o SubSeq(l, i + 1, j)
    BY HeadAndRest
  <2>2. SubSeq(l, 1, Len(l)) = SubSeq(l, 1, j) \o SubSeq(l, j + 1, Len(l))
    <3>1. j \in 0..Len(l) /\ Len(l) \in j..Len(l)
      OBVIOUS
    <3> QED
      BY <3>1, HeadAndRest
  <2>3. SubSeq(l, 1, Len(l)) = l
    BY SubSeqFull
  <2> QED
    BY <1>1, <1>2, <1>3, <2>1, <2>2, <2>3, Zenon
<1>5. PICK front \in Seq(S) : front = head \o mid
  BY ConcatProperties
<1>6. PICK new \in Seq(S) : new = head \o t
  BY ConcatProperties
<1>7. l = front \o tail /\ Spliced(l, i, j, t) = new \o tail
  BY <1>1, <1>3, <1>4, <1>5, <1>6, Zenon DEF Spliced
<1>8. /\ Count(front \o tail, x) = Count(front, x) + Count(tail, x)
      /\ Count(new \o tail, x) = Count(new, x) + Count(tail, x)
  BY CountConcat
<1>9. /\ Count(head \o mid, x) = Count(head, x) + Count(mid, x)
      /\ Count(head \o t, x) = Count(head, x) + Count(t, x)
  BY CountConcat
<1>10. /\ Count(head, x) \in Nat /\ Count(mid, x) \in Nat
       /\ Count(tail, x) \in Nat /\ Count(t, x) \in Nat
  BY CountType
<1>11. /\ Count(l, x) = Count(front, x) + Count(tail, x)
       /\ Count(Spliced(l, i, j, t), x) = Count(new, x) + Count(tail, x)
       /\ Count(front, x) = Count(head, x) + Count(mid, x)
       /\ Count(new, x) = Count(head, x) + Count(t, x)
       /\ Count(SubSeq(l, i + 1, j), x) = Count(mid, x)
  BY <1>2, <1>5, <1>6, <1>7, <1>8, <1>9, Zenon
<1> QED
  BY <1>10, <1>11

Agree(l, m, j) == j <= Len(l) /\ j <= Len(m) /\ \A k \in 1..j : l[k] = m[k]

LEMMA SamePrefix ==
  ASSUME NEW S, NEW l \in Seq(S), NEW m \in Seq(S), NEW j \in Nat, Agree(l, m, j)
  PROVE  SubSeq(l, 1, j) = SubSeq(m, 1, j)
BY DEF Agree

\* Two lists that agree up to the end of an edit change alike under it.
LEMMA SameCut ==
  ASSUME NEW S, NEW l \in Seq(S), NEW m \in Seq(S), NEW i \in Nat, NEW j \in Nat, NEW t \in Seq(S),
         i <= j, Agree(l, m, j), NEW x
  PROVE  Count(Spliced(l, i, j, t), x) + Count(m, x) = Count(Spliced(m, i, j, t), x) + Count(l, x)
<1>1. SubSeq(l, i + 1, j) = SubSeq(m, i + 1, j)
  BY DEF Agree
<1>2. /\ i \in 0..Len(l) /\ j \in i..Len(l)
      /\ i \in 0..Len(m) /\ j \in i..Len(m)
  BY DEF Agree
<1>3. PICK cl \in Nat : cl = Count(l, x)
  BY CountType
<1>4. PICK cm \in Nat : cm = Count(m, x)
  BY CountType
<1>5. PICK ct \in Nat : ct = Count(t, x)
  BY CountType
<1>6. PICK cut \in Nat : cut = Count(SubSeq(l, i + 1, j), x)
  <2>1. i + 1 \in 1..(Len(l) + 1) /\ j \in 0..Len(l)
    BY <1>2
  <2>2. SubSeq(l, i + 1, j) \in Seq(S)
    BY <2>1, Cut
  <2>3. Count(SubSeq(l, i + 1, j), x) \in Nat
    BY <2>2, CountType
  <2> QED
    BY <2>3
<1>7. PICK sl \in Nat : sl = Count(Spliced(l, i, j, t), x)
  <2>1. Spliced(l, i, j, t) \in Seq(S)
    BY <1>2, OneCut
  <2>2. Count(Spliced(l, i, j, t), x) \in Nat
    BY <2>1, CountType
  <2> QED
    BY <2>2
<1>8. PICK sm \in Nat : sm = Count(Spliced(m, i, j, t), x)
  <2>1. Spliced(m, i, j, t) \in Seq(S)
    BY <1>2, OneCut
  <2>2. Count(Spliced(m, i, j, t), x) \in Nat
    BY <2>1, CountType
  <2> QED
    BY <2>2
<1>9. Count(Spliced(l, i, j, t), x) + Count(SubSeq(l, i + 1, j), x) = Count(l, x) + Count(t, x)
  BY <1>2, CountCut
<1>10. Count(Spliced(m, i, j, t), x) + Count(SubSeq(m, i + 1, j), x) = Count(m, x) + Count(t, x)
  BY <1>2, CountCut
<1>11. sl + cut = cl + ct
  BY <1>3, <1>5, <1>6, <1>7, <1>9, Zenon
<1>12. sm + cut = cm + ct
  BY <1>1, <1>4, <1>5, <1>6, <1>8, <1>10, Zenon
<1>13. sl + cm = sm + cl
  BY <1>11, <1>12
<1> QED
  BY <1>3, <1>4, <1>7, <1>8, <1>13, Zenon

\* The same for an edit record.
LEMMA SameChange ==
  ASSUME NEW S, NEW l \in Seq(S), NEW m \in Seq(S), NEW e,
         e.from \in Nat, e.to \in Nat, e.from <= e.to, e.segment \in Seq(S),
         Agree(l, m, e.to), NEW x
  PROVE  Count(Replaced(l, e), x) + Count(m, x) = Count(Replaced(m, e), x) + Count(l, x)
<1>1. /\ Replaced(l, e) = Spliced(l, e.from, e.to, e.segment)
      /\ Replaced(m, e) = Spliced(m, e.from, e.to, e.segment)
  BY Zenon DEF Replaced, Spliced
<1>2. \A i, j \in Nat, t \in Seq(S) :
        i <= j /\ Agree(l, m, j) =>
          Count(Spliced(l, i, j, t), x) + Count(m, x) = Count(Spliced(m, i, j, t), x) + Count(l, x)
  <2> SUFFICES ASSUME NEW i \in Nat, NEW j \in Nat, NEW t \in Seq(S),
                      i <= j, Agree(l, m, j)
               PROVE  Count(Spliced(l, i, j, t), x) + Count(m, x)
                        = Count(Spliced(m, i, j, t), x) + Count(l, x)
    OBVIOUS
  <2> QED
    BY SameCut
<1>3. Count(Spliced(l, e.from, e.to, e.segment), x) + Count(m, x)
        = Count(Spliced(m, e.from, e.to, e.segment), x) + Count(l, x)
  BY <1>2
<1> QED
  BY <1>1, <1>3, Zenon

\* What lies before all edits from p on is still as it was.
LEMMA Untouched ==
  ASSUME NEW S, NEW lines \in Seq(S), NEW es, EditsOver(Len(lines), S, es),
         NEW after, Afters(lines, es, after), NEW p \in 0..(Len(lines) + 1)
  PROVE  /\ after[p] \in Seq(S)
         /\ \A k \in 0..Len(lines) :
              (\A e \in es : e.from >= p => e.from >= k) =>
                k <= Len(after[p]) /\ \A i \in 1..k : after[p][i] = lines[i]
<1> DEFINE n == Len(lines)
           Same(q) ==
             /\ after[q] \in Seq(S)
             /\ \A k \in 0..n : (\A e \in es : e.from >= q => e.from >= k) =>
                  k <= Len(after[q]) /\ \A i \in 1..k : after[q][i] = lines[i]
           G == {q \in 0..(n + 1) : Same(q)}
<1>1. n \in Nat
  OBVIOUS
<1>2. n + 1 \in G
  <2>1. after[n + 1] = lines
    BY <1>1, SpliceSteps
  <2>2. Same(n + 1)
    BY <1>1, <2>1
  <2> QED
    BY <1>1, <2>2
<1>3. ASSUME NEW q \in 0..n, q + 1 \in G PROVE q \in G
  <2>1. Same(q + 1)
    BY <1>3
  <2>2. CASE \A e \in es : e.from # q
    <3>1. after[q] = after[q + 1]
      BY <1>1, <2>2, SpliceSteps
    <3>2. \A e \in es : e.from >= q + 1 => e.from >= q
      BY DEF EditsOver
    <3>3. Same(q)
      BY <2>1, <3>1, <3>2
    <3> QED
      BY <3>3
  <2>3. ASSUME NEW e \in es, e.from = q PROVE q \in G
    <3>1. after[q] = Replaced(after[q + 1], e)
      BY <1>1, <2>3, SpliceSteps
    <3>2. e.from \in 0..n /\ e.to \in e.from..n /\ e.segment \in Seq(S)
      BY DEF EditsOver
    <3>3. \A f \in es : f.from >= q + 1 => f.from >= e.to
      BY <2>3, <3>2 DEF EditsOver, Before
    <3>4. e.to \in 0..n
      BY <3>2
    <3>5. e.to <= Len(after[q + 1]) /\ \A i \in 1..e.to : after[q + 1][i] = lines[i]
      BY <2>1, <3>3, <3>4
    <3>6. PICK l \in Seq(S) : l = after[q + 1]
      BY <2>1
    <3>7. e.from \in 0..Len(l) /\ e.to \in e.from..Len(l)
      BY <3>2, <3>5, <3>6
    <3>8. /\ Replaced(l, e) \in Seq(S)
          /\ e.from <= Len(Replaced(l, e))
          /\ \A i \in 1..e.from : Replaced(l, e)[i] = l[i]
      BY <3>2, <3>6, <3>7, OneSplice
    <3>9. ASSUME NEW k \in 0..n, \A f \in es : f.from >= q => f.from >= k
          PROVE  k <= Len(after[q]) /\ \A i \in 1..k : after[q][i] = lines[i]
      <4>1. k <= e.from /\ e.from \in Nat /\ e.from <= e.to
        BY <2>3, <3>2, <3>9
      <4>2. k <= Len(Replaced(l, e))
        BY <3>8, <4>1
      <4>3. \A i \in 1..k : i \in 1..e.from /\ i \in 1..e.to
        BY <3>2, <4>1
      <4>4. \A i \in 1..k : Replaced(l, e)[i] = l[i] /\ l[i] = lines[i]
        BY <3>5, <3>6, <3>8, <4>3
      <4>5. after[q] = Replaced(l, e)
        BY <3>1, <3>6, Zenon
      <4> QED
        BY <4>2, <4>4, <4>5
    <3>10. after[q] \in Seq(S)
      BY <3>1, <3>6, <3>8, Zenon
    <3>11. Same(q)
      BY <3>9, <3>10
    <3> QED
      BY <3>11
  <2> QED
    BY <2>2, <2>3
<1>4. 0..(n + 1) \subseteq G
  <2> HIDE DEF G
  <2> QED
    BY <1>1, <1>2, <1>3, Downward
<1> QED
  BY <1>4

SameShift(all, one, e, x) ==
  Count(all[e.from], x) + Count(one[e.from + 1], x)
    = Count(one[e.from], x) + Count(all[e.from + 1], x)

\* An edit changes the number of occurrences as much among more edits as
\* among fewer.
LEMMA SharedEdit ==
  ASSUME NEW S, NEW lines \in Seq(S), NEW es, NEW gs, es \subseteq gs,
         EditsOver(Len(lines), S, gs),
         NEW one, Afters(lines, es, one), NEW all, Afters(lines, gs, all),
         NEW e \in es, NEW x
  PROVE  SameShift(all, one, e, x)
<1>1. EditsOver(Len(lines), S, es)
  BY DEF EditsOver
<1>2. /\ e.from \in 0..Len(lines) /\ e.to \in e.from..Len(lines) /\ e.segment \in Seq(S)
      /\ \A f \in gs : f.from >= e.from + 1 => f.from >= e.to
  BY DEF EditsOver, Before
<1>3. PICK p \in 0..(Len(lines) + 1) : p = e.from + 1
  BY <1>2
<1>4. PICK k \in 0..Len(lines) : k = e.to
  BY <1>2
<1>5. \A f \in gs : f.from >= p => f.from >= k
  BY <1>2, <1>3, <1>4
<1>6. \A f \in es : f.from >= p => f.from >= k
  BY <1>5
<1>7. /\ all[p] \in Seq(S) /\ k <= Len(all[p])
      /\ \A i \in 1..k : all[p][i] = lines[i]
  BY <1>5, Untouched
<1>8. /\ one[p] \in Seq(S) /\ k <= Len(one[p])
      /\ \A i \in 1..k : one[p][i] = lines[i]
  BY <1>1, <1>6, Untouched
<1>9. Agree(all[p], one[p], e.to)
  <2> SUFFICES Agree(all[p], one[p], k)
    BY <1>4
  <2> QED
    BY <1>7, <1>8, Zenon DEF Agree
<1>10. /\ all[e.from] = Replaced(all[p], e)
       /\ one[e.from] = Replaced(one[p], e)
  <2>1. Len(lines) \in Nat
    OBVIOUS
  <2>2. e \in gs
    OBVIOUS
  <2>3. all[e.from] = Replaced(all[e.from + 1], e)
    BY <2>1, <2>2, SpliceSteps
  <2>4. one[e.from] = Replaced(one[e.from + 1], e)
    BY <1>1, <2>1, SpliceSteps
  <2> QED
    BY <1>3, <2>3, <2>4, Zenon
<1>11. e.from \in Nat /\ e.to \in Nat /\ e.from <= e.to
  BY <1>2
<1>12. Count(Replaced(all[p], e), x) + Count(one[p], x)
         = Count(Replaced(one[p], e), x) + Count(all[p], x)
  BY <1>2, <1>7, <1>8, <1>9, <1>11, SameChange
<1> QED
  BY <1>3, <1>10, <1>12, Zenon DEF SameShift

\* Two disjoint sets of edits, spliced together, change the number of
\* occurrences of a line as much as they do one after the other.
LEMMA Accounting ==
  ASSUME NEW S, NEW lines \in Seq(S), NEW es, NEW fs, es \intersect fs = {},
         EditsOver(Len(lines), S, es \union fs), NEW x
  PROVE  /\ Splice(lines, es \union fs) \in Seq(S)
         /\ Count(Splice(lines, es \union fs), x) + Count(lines, x)
              = Count(Splice(lines, es), x) + Count(Splice(lines, fs), x)
<1> DEFINE n == Len(lines)
<1>0. n \in Nat
  OBVIOUS
<1> PICK gs : gs = es \union fs
  OBVIOUS
<1>1. EditsOver(n, S, es) /\ EditsOver(n, S, fs) /\ EditsOver(n, S, gs)
  BY DEF EditsOver
<1>2. PICK one : Afters(lines, es, one) /\ Splice(lines, es) = one[0]
  BY <1>0, SpliceIsRecursive
<1>3. PICK two : Afters(lines, fs, two) /\ Splice(lines, fs) = two[0]
  BY <1>0, SpliceIsRecursive
<1>4. PICK all : Afters(lines, gs, all) /\ Splice(lines, gs) = all[0]
  BY <1>0, SpliceIsRecursive
<1>5. \A p \in 0..(n + 1) :
        all[p] \in Seq(S) /\ one[p] \in Seq(S) /\ two[p] \in Seq(S)
  BY <1>1, <1>2, <1>3, <1>4, Untouched
<1> DEFINE A(p) == Count(all[p], x)
           B(p) == Count(one[p], x)
           C(p) == Count(two[p], x)
           L == Count(lines, x)
           Balanced(p) == A(p) + L = B(p) + C(p)
           G == {p \in 0..(n + 1) : Balanced(p)}
<1>6. n + 1 \in G
  <2>1. all[n + 1] = lines /\ one[n + 1] = lines /\ two[n + 1] = lines
    BY <1>0, <1>1, <1>2, <1>3, <1>4, SpliceSteps
  <2>2. n + 1 \in 0..(n + 1)
    BY <1>0
  <2> QED
    BY <2>1, <2>2
<1>7. ASSUME NEW p \in 0..n, p + 1 \in G PROVE p \in G
  <2>1. p \in 0..(n + 1) /\ p + 1 \in 0..(n + 1)
    BY <1>0
  <2>2. /\ A(p) \in Nat /\ A(p + 1) \in Nat /\ B(p) \in Nat /\ B(p + 1) \in Nat
        /\ C(p) \in Nat /\ C(p + 1) \in Nat /\ L \in Nat
    BY <1>5, <2>1, CountType
  <2>3. /\ (\A e \in es : e.from # p) => B(p) = B(p + 1)
        /\ (\A e \in fs : e.from # p) => C(p) = C(p + 1)
        /\ (\A e \in gs : e.from # p) => A(p) = A(p + 1)
    BY <1>0, <1>1, <1>2, <1>3, <1>4, SpliceSteps
  <2>4. es \subseteq gs /\ fs \subseteq gs
    OBVIOUS
  <2>5. \A e \in es : e.from = p =>
          /\ A(p) + B(p + 1) = B(p) + A(p + 1)
          /\ \A f \in fs : f.from # p
    <3> SUFFICES ASSUME NEW e \in es, e.from = p
                 PROVE  /\ A(p) + B(p + 1) = B(p) + A(p + 1)
                        /\ \A f \in fs : f.from # p
      OBVIOUS
    <3>1. \A f \in fs : f.from # p
      BY <1>1 DEF EditsOver, Before
    <3>2. SameShift(all, one, e, x)
      BY <1>1, <1>2, <1>4, <2>4, SharedEdit
    <3> QED
      BY <3>1, <3>2, Zenon DEF SameShift
  <2>6. \A e \in fs : e.from = p =>
          /\ A(p) + C(p + 1) = C(p) + A(p + 1)
          /\ \A f \in es : f.from # p
    <3> SUFFICES ASSUME NEW e \in fs, e.from = p
                 PROVE  /\ A(p) + C(p + 1) = C(p) + A(p + 1)
                        /\ \A f \in es : f.from # p
      OBVIOUS
    <3>1. \A f \in es : f.from # p
      BY <1>1 DEF EditsOver, Before
    <3>2. SameShift(all, two, e, x)
      BY <1>1, <1>3, <1>4, <2>4, SharedEdit
    <3> QED
      BY <3>1, <3>2, Zenon DEF SameShift
  <2>7. A(p + 1) + L = B(p + 1) + C(p + 1)
    BY <1>7
  <2> HIDE DEF A, B, C, L
  <2>8. A(p) + L = B(p) + C(p)
    <3>1. CASE \A e \in gs : e.from # p
      BY <2>2, <2>3, <2>4, <2>7, <3>1
    <3>2. CASE \E e \in es : e.from = p
      <4>1. A(p) + B(p + 1) = B(p) + A(p + 1) /\ C(p) = C(p + 1)
        BY <2>3, <2>5, <3>2
      <4> QED
        BY <2>2, <2>7, <4>1
    <3>3. CASE \E e \in fs : e.from = p
      <4>1. A(p) + C(p + 1) = C(p) + A(p + 1) /\ B(p) = B(p + 1)
        BY <2>3, <2>6, <3>3
      <4> QED
        BY <2>2, <2>7, <4>1, SMTT(30)
    <3> QED
      BY <3>1, <3>2, <3>3
  <2> QED
    BY <2>1, <2>8
<1>8. 0 \in G
  <2> HIDE DEF G
  <2>1. 0..(n + 1) \subseteq G
    BY <1>0, <1>6, <1>7, Downward
  <2> QED
    BY <1>0, <2>1
<1>9. 0 \in 0..(n + 1)
  BY <1>0
<1> QED
  BY <1>2, <1>3, <1>4, <1>5, <1>8, <1>9

------------------------------------------------------------------------------
(* difflib: what it matches are equal lines, in the same order on both sides. *)

LEMMA RunsType ==
  ASSUME NEW a, NEW b, Len(a) \in Nat, Len(b) \in Nat,
         NEW w \in Windows(a, b), NEW r \in Runs(a, b, w)
  PROVE  /\ w[1] \in 0..Len(a) /\ w[2] \in 0..Len(a)
         /\ w[3] \in 0..Len(b) /\ w[4] \in 0..Len(b)
         /\ r[1] \in w[1]..w[2] /\ r[2] \in w[3]..w[4] /\ r[3] \in 1..(w[2] - w[1])
         /\ r[1] + r[3] <= w[2] /\ r[2] + r[3] <= w[4]
         /\ \A n \in 1..r[3] : a[r[1] + n] = b[r[2] + n]
BY DEF Windows, Runs

\* find_longest_match has a result wherever there is a run.
LEMMA BestIsRun ==
  ASSUME NEW runs, runs # {}, NEW K \in Nat,
         \A r \in runs : r[1] \in Nat /\ r[2] \in Nat /\ r[3] \in 1..K
  PROVE  /\ Best(runs) \in runs
         /\ \A s \in runs : Better(Best(runs), s)
<1>1. PICK x \in runs : \A s \in runs : s[3] <= x[3]
  <2> DEFINE T == {K - r[3] : r \in runs}
  <2>1. T \subseteq Nat /\ T # {}
    OBVIOUS
  <2>2. PICK y \in T : \A z \in T : y <= z
    BY <2>1, LeastElement
  <2>3. PICK x \in runs : y = K - x[3]
    BY <2>2
  <2>4. \A s \in runs : K - x[3] <= K - s[3]
    BY <2>2, <2>3
  <2>5. \A s \in runs : s[3] <= x[3]
    BY <2>4
  <2> QED
    BY <2>5
<1>2. PICK y \in runs : y[3] = x[3] /\ \A s \in runs : s[3] = x[3] => y[1] <= s[1]
  <2> DEFINE R == {r \in runs : r[3] = x[3]}
             T == {r[1] : r \in R}
  <2>1. T \subseteq Nat /\ T # {}
    BY <1>1
  <2>2. PICK i \in T : \A z \in T : i <= z
    BY <2>1, LeastElement
  <2>3. PICK y \in R : i = y[1]
    BY <2>2
  <2> QED
    BY <2>2, <2>3
<1>3. PICK z \in runs : /\ z[3] = x[3] /\ z[1] = y[1]
                        /\ \A s \in runs : s[3] = x[3] /\ s[1] = y[1] => z[2] <= s[2]
  <2> DEFINE R == {r \in runs : r[3] = x[3] /\ r[1] = y[1]}
             T == {r[2] : r \in R}
  <2>1. T \subseteq Nat /\ T # {}
    BY <1>2
  <2>2. PICK i \in T : \A j \in T : i <= j
    BY <2>1, LeastElement
  <2>3. PICK z \in R : i = z[2]
    BY <2>2
  <2> QED
    BY <2>2, <2>3
<1>4. \A s \in runs : Better(z, s)
  BY <1>1, <1>2, <1>3 DEF Better
<1> QED
  BY <1>4, Zenon DEF Best

LEMMA Parts ==
  ASSUME NEW A \in Nat, NEW B \in Nat, NEW w, NEW r,
         w[1] \in 0..A, w[2] \in 0..A, w[3] \in 0..B, w[4] \in 0..B,
         r[1] \in w[1]..w[2], r[2] \in w[3]..w[4], r[3] \in 1..(w[2] - w[1]),
         r[1] + r[3] <= w[2], r[2] + r[3] <= w[4]
  PROVE  r[1] \in 0..A /\ r[2] \in 0..B /\ r[1] + r[3] \in 0..A /\ r[2] + r[3] \in 0..B
OBVIOUS

LEMMA WholeRun ==
  ASSUME NEW n \in Nat, NEW r, r[1] \in 0..n, r[2] \in 0..n, r[3] \in 1..(n - 0),
         r[1] + r[3] <= n, r[2] + r[3] <= n, r[3] >= n
  PROVE  r[1] = 0 /\ r[2] = 0 /\ r[3] = n
OBVIOUS

LEMMA SubWindows ==
  ASSUME NEW a, NEW b, Len(a) \in Nat, Len(b) \in Nat,
         NEW w \in Windows(a, b), NEW r \in Runs(a, b, w)
  PROVE  LeftOf(w, r) \in Windows(a, b) /\ RightOf(w, r) \in Windows(a, b)
<1>1. /\ w[1] \in 0..Len(a) /\ w[2] \in 0..Len(a)
      /\ w[3] \in 0..Len(b) /\ w[4] \in 0..Len(b)
      /\ r[1] \in w[1]..w[2] /\ r[2] \in w[3]..w[4] /\ r[3] \in 1..(w[2] - w[1])
      /\ r[1] + r[3] <= w[2] /\ r[2] + r[3] <= w[4]
  BY RunsType
<1>2. /\ r[1] \in 0..Len(a) /\ r[2] \in 0..Len(b)
      /\ r[1] + r[3] \in 0..Len(a) /\ r[2] + r[3] \in 0..Len(b)
  BY <1>1, Parts
<1>3. /\ <<w[1], r[1], w[3], r[2]>> \in Windows(a, b)
      /\ <<r[1] + r[3], w[2], r[2] + r[3], w[4]>> \in Windows(a, b)
  BY <1>1, <1>2, Zenon DEF Windows
<1> QED
  BY <1>3, Zenon DEF LeftOf, RightOf

\* What is left of a window on both sides of its best run are windows again.
LEMMA BestInWindow ==
  ASSUME NEW a, NEW b, Len(a) \in Nat, Len(b) \in Nat,
         NEW w \in Windows(a, b), Runs(a, b, w) # {},
         NEW r, r = Best(Runs(a, b, w))
  PROVE  /\ r \in Runs(a, b, w)
         /\ \A s \in Runs(a, b, w) : Better(r, s)
         /\ LeftOf(w, r) \in Windows(a, b)
         /\ RightOf(w, r) \in Windows(a, b)
<1>1. \A s \in Runs(a, b, w) : s[1] \in Nat /\ s[2] \in Nat /\ s[3] \in 1..Len(a)
  <2> TAKE s \in Runs(a, b, w)
  <2>1. /\ w[1] \in 0..Len(a) /\ w[2] \in 0..Len(a) /\ w[3] \in 0..Len(b)
        /\ s[1] \in w[1]..w[2] /\ s[2] \in w[3]..w[4] /\ s[3] \in 1..(w[2] - w[1])
    BY RunsType
  <2> QED
    BY <2>1, SMTT(30)
<1>2. r \in Runs(a, b, w) /\ \A s \in Runs(a, b, w) : Better(r, s)
  BY <1>1, BestIsRun
<1> QED
  BY <1>2, SubWindows

Diagonal(r) == {<<r[1] + n, r[2] + n>> : n \in 0..(r[3] - 1)}

\* One step of get_matching_blocks.
Block(a, b, w, matched) ==
  IF Runs(a, b, w) = {} THEN {}
  ELSE LET r == Best(Runs(a, b, w))
       IN Diagonal(r) \union matched[LeftOf(w, r)] \union matched[RightOf(w, r)]

Blocks(a, b, matched) ==
  matched = [w \in Windows(a, b) |-> Block(a, b, w, matched)]

Size(w) == w[2] - w[1]

\* What a window contributes depends on smaller windows only.
LEMMA BlockIsLocal ==
  ASSUME NEW a, NEW b, Len(a) \in Nat, Len(b) \in Nat,
         NEW w \in Windows(a, b), NEW g, NEW h,
         \A v \in Windows(a, b) : Size(v) < Size(w) => g[v] = h[v]
  PROVE  Block(a, b, w, g) = Block(a, b, w, h)
<1>1. CASE Runs(a, b, w) = {}
  BY <1>1, Zenon DEF Block
<1>2. CASE Runs(a, b, w) # {}
  <2>1. PICK r : r = Best(Runs(a, b, w))
    OBVIOUS
  <2>2. r \in Runs(a, b, w) /\ LeftOf(w, r) \in Windows(a, b) /\ RightOf(w, r) \in Windows(a, b)
    BY <1>2, <2>1, BestInWindow
  <2>3. Size(LeftOf(w, r)) < Size(w) /\ Size(RightOf(w, r)) < Size(w)
    BY <2>2, RunsType, SMTT(30) DEF Size, LeftOf, RightOf
  <2>4. g[LeftOf(w, r)] = h[LeftOf(w, r)] /\ g[RightOf(w, r)] = h[RightOf(w, r)]
    BY <2>2, <2>3
  <2> QED
    BY <1>2, <2>1, <2>4, Zenon DEF Block
<1> QED
  BY <1>1, <1>2

\* get_matching_blocks' recursion defines a function on all windows: every call
\* is on a smaller one.
LEMMA MatchedIsRecursive ==
  ASSUME NEW a, NEW b, Len(a) \in Nat, Len(b) \in Nat
  PROVE  \E matched : /\ Blocks(a, b, matched)
                      /\ Matched(a, b) = matched[<<0, Len(a), 0, Len(b)>>]
<1> DEFINE W == Windows(a, b)
           Upto(k, g) == \A w \in W : Size(w) <= k => g[w] = Block(a, b, w, g)
           G == {k \in Nat : \E g : Upto(k, g)}
<1>0. \A w \in W : Size(w) \in Int /\ Size(w) <= Len(a)
  BY DEF Windows, Size
<1>1. ASSUME NEW k \in Nat, \A i \in 0..(k - 1) : i \in G PROVE k \in G
  <2>1. PICK g : \A w \in W : Size(w) < k => g[w] = Block(a, b, w, g)
    <3>1. CASE k = 0
      <4> DEFINE g == [w \in W |-> {}]
      <4>1. \A w \in W : Size(w) < 0 => Block(a, b, w, g) = {}
        BY RunsType DEF Size, Block
      <4>2. \A w \in W : g[w] = {}
        OBVIOUS
      <4> HIDE DEF g
      <4> QED
        BY <3>1, <4>1, <4>2
    <3>2. CASE k # 0
      <4>1. k - 1 \in G
        BY <1>1, <3>2
      <4>2. PICK g : Upto(k - 1, g)
        BY <4>1
      <4> QED
        BY <1>0, <4>2
    <3> QED
      BY <3>1, <3>2
  <2> DEFINE h == [w \in W |-> IF Size(w) < k THEN g[w] ELSE Block(a, b, w, g)]
  <2>2. \A w \in W : Size(w) < k => h[w] = g[w]
    BY Zenon
  <2>3. \A w \in W : h[w] = Block(a, b, w, g)
    BY <2>1, Zenon
  <2>4. ASSUME NEW w \in W, Size(w) <= k PROVE h[w] = Block(a, b, w, h)
    <3>1. \A v \in W : Size(v) < Size(w) => g[v] = h[v]
      BY <1>0, <2>2, <2>4
    <3> HIDE DEF h
    <3>2. Block(a, b, w, g) = Block(a, b, w, h)
      BY <3>1, BlockIsLocal
    <3> QED
      BY <2>3, <3>2, Zenon
  <2>5. Upto(k, h)
    BY <2>4
  <2> HIDE DEF Upto
  <2> QED
    BY <2>5
<1>2. Len(a) \in G
  <2> HIDE DEF G
  <2> QED
    BY <1>1, Upward
<1>3. PICK g : Upto(Len(a), g)
  BY <1>2
<1> DEFINE h == [w \in W |-> g[w]]
<1>4. \A w \in W : h[w] = Block(a, b, w, h)
  <2>1. \A w \in W : Block(a, b, w, g) = Block(a, b, w, h)
    <3> TAKE w \in W
    <3>1. \A v \in W : h[v] = g[v]
      BY Zenon
    <3> HIDE DEF h
    <3> QED
      BY <3>1, BlockIsLocal
  <2> QED
    BY <1>0, <1>3, <2>1
<1>5. Blocks(a, b, h)
  <2>1. h = [w \in W |-> h[w]]
    BY Zenon
  <2> HIDE DEF h
  <2> QED
    BY <1>4, <2>1, Zenon DEF Blocks
<1>6. Matched(a, b) = (CHOOSE matched : Blocks(a, b, matched))[<<0, Len(a), 0, Len(b)>>]
  BY DEF Matched, Blocks, Block, Diagonal
<1> QED
  BY <1>5, <1>6, Zenon

\* Pairs inside a window, of equal lines, in the same order on both sides.
Valid(a, b, alo, ahi, blo, bhi, M) ==
  /\ M \subseteq (alo..(ahi - 1)) \X (blo..(bhi - 1))
  /\ \A p \in M : a[p[1] + 1] = b[p[2] + 1]
  /\ \A p, q \in M : p[1] < q[1] <=> p[2] < q[2]

\* Matches left of a run, in it and right of it are matches of the whole window.
LEMMA Combine ==
  ASSUME NEW a, NEW b, NEW alo \in Int, NEW ahi \in Int, NEW blo \in Int, NEW bhi \in Int,
         NEW i \in Int, NEW j \in Int, NEW k \in Nat, k >= 1,
         alo <= i, i + k <= ahi, blo <= j, j + k <= bhi,
         \A n \in 1..k : a[i + n] = b[j + n],
         NEW D, D = {<<i + n, j + n>> : n \in 0..(k - 1)},
         NEW L, Valid(a, b, alo, i, blo, j, L),
         NEW R, Valid(a, b, i + k, ahi, j + k, bhi, R)
  PROVE  Valid(a, b, alo, ahi, blo, bhi, D \union L \union R)
<1>1. \A p \in D : /\ p[1] \in i..(i + k - 1) /\ p[2] \in j..(j + k - 1)
                   /\ p[2] - j = p[1] - i /\ p = <<p[1], p[2]>>
  OBVIOUS
<1>2. \A p \in L : /\ p[1] \in alo..(i - 1) /\ p[2] \in blo..(j - 1) /\ p = <<p[1], p[2]>>
  BY DEF Valid
<1>3. \A p \in R : /\ p[1] \in (i + k)..(ahi - 1) /\ p[2] \in (j + k)..(bhi - 1)
                   /\ p = <<p[1], p[2]>>
  BY DEF Valid
<1>4. D \union L \union R \subseteq (alo..(ahi - 1)) \X (blo..(bhi - 1))
  <2> SUFFICES ASSUME NEW p \in D \union L \union R
               PROVE  p \in (alo..(ahi - 1)) \X (blo..(bhi - 1))
    OBVIOUS
  <2>1. p[1] \in alo..(ahi - 1) /\ p[2] \in blo..(bhi - 1) /\ p = <<p[1], p[2]>>
    <3>1. CASE p \in D
      BY <1>1, <3>1
    <3>2. CASE p \in L
      BY <1>2, <3>2
    <3>3. CASE p \in R
      BY <1>3, <3>3
    <3> QED
      BY <3>1, <3>2, <3>3
  <2> QED
    BY <2>1
<1>5. ASSUME NEW p \in D \union L \union R PROVE a[p[1] + 1] = b[p[2] + 1]
  <2>1. CASE p \in D
    <3>1. PICK n \in 0..(k - 1) : p = <<i + n, j + n>>
      BY <2>1
    <3>2. n + 1 \in 1..k /\ p[1] + 1 = i + (n + 1) /\ p[2] + 1 = j + (n + 1)
      BY <3>1
    <3> QED
      BY <3>2
  <2>2. CASE p \in L \union R
    BY <2>2 DEF Valid
  <2> QED
    BY <2>1, <2>2
<1>6. ASSUME NEW p \in D \union L \union R, NEW q \in D \union L \union R
      PROVE  p[1] < q[1] <=> p[2] < q[2]
  <2>1. CASE p \in D
    <3>1. CASE q \in D
      BY <1>1, <2>1, <3>1
    <3>2. CASE q \in L
      BY <1>1, <1>2, <2>1, <3>2
    <3>3. CASE q \in R
      BY <1>1, <1>3, <2>1, <3>3
    <3> QED
      BY <3>1, <3>2, <3>3
  <2>2. CASE p \in L
    <3>1. CASE q \in D
      BY <1>1, <1>2, <2>2, <3>1
    <3>2. CASE q \in L
      BY <2>2, <3>2 DEF Valid
    <3>3. CASE q \in R
      BY <1>2, <1>3, <2>2, <3>3
    <3> QED
      BY <3>1, <3>2, <3>3
  <2>3. CASE p \in R
    <3>1. CASE q \in D
      BY <1>1, <1>3, <2>3, <3>1
    <3>2. CASE q \in L
      BY <1>2, <1>3, <2>3, <3>2
    <3>3. CASE q \in R
      BY <2>3, <3>3 DEF Valid
    <3> QED
      BY <3>1, <3>2, <3>3
  <2> QED
    BY <2>1, <2>2, <2>3
<1> QED
  BY <1>4, <1>5, <1>6 DEF Valid

LEMMA Smaller ==
  ASSUME NEW w, NEW r, NEW k \in Nat, w[1] \in Int, w[2] \in Int, r[1] \in Int, r[3] \in Nat,
         w[1] <= r[1], r[3] >= 1, r[1] + r[3] <= w[2], w[2] - w[1] <= k
  PROVE  /\ r[1] - w[1] < k /\ r[1] - w[1] >= 0
         /\ w[2] - (r[1] + r[3]) < k /\ w[2] - (r[1] + r[3]) >= 0
OBVIOUS

\* get_matching_blocks only matches equal lines, and never crosses two matches.
LEMMA MatchedIsValid ==
  ASSUME NEW a, NEW b, Len(a) \in Nat, Len(b) \in Nat
  PROVE  Valid(a, b, 0, Len(a), 0, Len(b), Matched(a, b))
<1> DEFINE W == Windows(a, b)
<1>1. PICK matched : /\ Blocks(a, b, matched)
                     /\ Matched(a, b) = matched[<<0, Len(a), 0, Len(b)>>]
  BY MatchedIsRecursive
<1>2. \A w \in W : matched[w] = Block(a, b, w, matched)
  BY <1>1, Zenon DEF Blocks
<1>3. \A w \in W : /\ w[1] \in 0..Len(a) /\ w[2] \in 0..Len(a)
                   /\ w[3] \in 0..Len(b) /\ w[4] \in 0..Len(b)
                   /\ Size(w) \in Int /\ Size(w) <= Len(a)
  BY DEF Windows, Size
<1> DEFINE Good(w) == Valid(a, b, w[1], w[2], w[3], w[4], matched[w])
           G == {k \in Nat : \A w \in W : Size(w) <= k => Good(w)}
<1>4. ASSUME NEW k \in Nat, \A i \in 0..(k - 1) : i \in G PROVE k \in G
  <2>1. \A w \in W : Size(w) < k /\ Size(w) >= 0 => Good(w)
    <3> SUFFICES ASSUME NEW w \in W, Size(w) < k, Size(w) >= 0 PROVE Good(w)
      OBVIOUS
    <3>1. Size(w) \in 0..(k - 1)
      BY <1>3
    <3>2. Size(w) \in G
      BY <1>4, <3>1
    <3> HIDE DEF Good
    <3> QED
      BY <1>3, <3>2
  <2>2. ASSUME NEW w \in W, Size(w) <= k PROVE Good(w)
    <3>1. CASE Runs(a, b, w) = {}
      <4>1. matched[w] = {}
        BY <1>2, <3>1, Zenon DEF Block
      <4> QED
        BY <4>1 DEF Valid
    <3>2. CASE Runs(a, b, w) # {}
      <4>1. PICK r : r = Best(Runs(a, b, w))
        OBVIOUS
      <4>2. /\ r \in Runs(a, b, w)
            /\ LeftOf(w, r) \in W /\ RightOf(w, r) \in W
        BY <3>2, <4>1, BestInWindow
      <4>3. matched[w] = Diagonal(r) \union matched[LeftOf(w, r)] \union matched[RightOf(w, r)]
        BY <1>2, <3>2, <4>1, Zenon DEF Block
      <4>4. /\ r[1] \in w[1]..w[2] /\ r[2] \in w[3]..w[4] /\ r[3] \in 1..(w[2] - w[1])
            /\ r[1] + r[3] <= w[2] /\ r[2] + r[3] <= w[4]
            /\ \A n \in 1..r[3] : a[r[1] + n] = b[r[2] + n]
        BY <4>2, RunsType
      <4>5. /\ r[1] \in Int /\ r[2] \in Int /\ r[3] \in Nat /\ r[3] >= 1
            /\ w[1] <= r[1] /\ w[3] <= r[2]
        BY <1>3, <4>4
      <4>9. w[1] \in Int /\ w[2] \in Int /\ w[3] \in Int /\ w[4] \in Int
        BY <1>3
      <4>6. /\ Size(LeftOf(w, r)) < k /\ Size(LeftOf(w, r)) >= 0
            /\ Size(RightOf(w, r)) < k /\ Size(RightOf(w, r)) >= 0
        <5>1. /\ Size(LeftOf(w, r)) = r[1] - w[1]
              /\ Size(RightOf(w, r)) = w[2] - (r[1] + r[3])
              /\ w[2] - w[1] <= k
          BY <2>2 DEF Size, LeftOf, RightOf
        <5>2. /\ r[1] - w[1] < k /\ r[1] - w[1] >= 0
              /\ w[2] - (r[1] + r[3]) < k /\ w[2] - (r[1] + r[3]) >= 0
          BY <4>4, <4>5, <4>9, <5>1, Smaller
        <5> QED
          BY <5>1, <5>2
      <4>7. Good(LeftOf(w, r)) /\ Good(RightOf(w, r))
        BY <2>1, <4>2, <4>6
      <4>8. /\ Valid(a, b, w[1], r[1], w[3], r[2], matched[LeftOf(w, r)])
            /\ Valid(a, b, r[1] + r[3], w[2], r[2] + r[3], w[4], matched[RightOf(w, r)])
        BY <4>7 DEF LeftOf, RightOf
      <4>10. Valid(a, b, w[1], w[2], w[3], w[4],
                   Diagonal(r) \union matched[LeftOf(w, r)] \union matched[RightOf(w, r)])
        BY <4>4, <4>5, <4>8, <4>9, Combine DEF Diagonal
      <4> QED
        BY <4>3, <4>10, Zenon
    <3> QED
      BY <3>1, <3>2
  <2> HIDE DEF Good
  <2> QED
    BY <2>2
<1>5. Len(a) \in G
  <2> HIDE DEF G
  <2> QED
    BY <1>4, Upward
<1>6. <<0, Len(a), 0, Len(b)>> \in W /\ Size(<<0, Len(a), 0, Len(b)>>) <= Len(a)
  BY DEF Windows, Size
<1>7. Good(<<0, Len(a), 0, Len(b)>>)
  BY <1>5, <1>6
<1> QED
  BY <1>1, <1>7

------------------------------------------------------------------------------
(* The edits of a text: they do not meet, and replaying them gives the text. *)

\* Matched pairs with the two ends.
AnchorsOf(a, b, P) ==
  /\ P \subseteq (-1..Len(a)) \X (-1..Len(b))
  /\ <<-1, -1>> \in P /\ <<Len(a), Len(b)>> \in P
  /\ \A p \in P : \/ p[1] = -1 /\ p[2] = -1
                  \/ p[1] = Len(a) /\ p[2] = Len(b)
                  \/ p[1] >= 0 /\ p[2] >= 0 /\ p[1] < Len(a) /\ p[2] < Len(b)
                       /\ a[p[1] + 1] = b[p[2] + 1]
  /\ \A p, q \in P : p[1] < q[1] <=> p[2] < q[2]

\* The ends fit in with the matched pairs.
LEMMA AnchorsAreOrdered ==
  ASSUME NEW a, NEW b, Len(a) \in Nat, Len(b) \in Nat
  PROVE  AnchorsOf(a, b, Anchors(a, b))
<1> DEFINE M == Matched(a, b)
           P == Anchors(a, b)
<1>1. Valid(a, b, 0, Len(a), 0, Len(b), M)
  BY MatchedIsValid
<1>2. P = M \union {<<-1, -1>>, <<Len(a), Len(b)>>}
  BY DEF Anchors
<1> HIDE DEF M, P
<1>3. \A p \in M : /\ p[1] \in 0..(Len(a) - 1) /\ p[2] \in 0..(Len(b) - 1)
                   /\ p = <<p[1], p[2]>> /\ a[p[1] + 1] = b[p[2] + 1]
  BY <1>1 DEF Valid
<1>4. \A p, q \in M : p[1] < q[1] <=> p[2] < q[2]
  BY <1>1 DEF Valid
<1>5. ASSUME NEW p \in P
      PROVE  /\ p \in (-1..Len(a)) \X (-1..Len(b))
             /\ \/ p[1] = -1 /\ p[2] = -1
                \/ p[1] = Len(a) /\ p[2] = Len(b)
                \/ p[1] >= 0 /\ p[2] >= 0 /\ p[1] < Len(a) /\ p[2] < Len(b)
                     /\ a[p[1] + 1] = b[p[2] + 1]
  <2>1. CASE p \in M
    BY <1>3, <2>1
  <2>2. CASE p \in {<<-1, -1>>, <<Len(a), Len(b)>>}
    BY <2>2
  <2> QED
    BY <1>2, <2>1, <2>2
<1>6. ASSUME NEW p \in P, NEW q \in P PROVE p[1] < q[1] <=> p[2] < q[2]
  <2>1. CASE p \in M /\ q \in M
    BY <1>4, <2>1
  <2>2. CASE p \in M /\ q \in {<<-1, -1>>, <<Len(a), Len(b)>>}
    BY <1>3, <2>2
  <2>3. CASE p \in {<<-1, -1>>, <<Len(a), Len(b)>>} /\ q \in M
    BY <1>3, <2>3
  <2>4. CASE /\ p \in {<<-1, -1>>, <<Len(a), Len(b)>>}
             /\ q \in {<<-1, -1>>, <<Len(a), Len(b)>>}
    BY <2>4
  <2> QED
    BY <1>2, <2>1, <2>2, <2>3, <2>4
<1>7. <<-1, -1>> \in P /\ <<Len(a), Len(b)>> \in P
  BY <1>2
<1>8. P \subseteq (-1..Len(a)) \X (-1..Len(b))
  BY <1>5
<1> QED
  BY <1>5, <1>6, <1>7, <1>8 DEF AnchorsOf, P

LEMMA AnchorFacts ==
  ASSUME NEW a, NEW b, Len(a) \in Nat, Len(b) \in Nat, NEW P, AnchorsOf(a, b, P)
  PROVE  /\ \A p \in P : p[1] \in -1..Len(a) /\ p[2] \in -1..Len(b) /\ p = <<p[1], p[2]>>
         /\ \A p, q \in P : p[1] < q[1] <=> p[2] < q[2]
         /\ \A p, q \in P : p[1] = q[1] => p = q
         /\ \A p, q, r \in P : Follows(P, p, q) /\ Follows(P, p, r) => q = r
         /\ \A p, q \in P : Follows(P, p, q) => p[1] < q[1] /\ p[2] < q[2]
<1>1. \A p \in P : p[1] \in -1..Len(a) /\ p[2] \in -1..Len(b) /\ p = <<p[1], p[2]>>
  BY DEF AnchorsOf
<1>2. \A p, q \in P : p[1] < q[1] <=> p[2] < q[2]
  BY DEF AnchorsOf
<1>3. \A p, q \in P : p[1] = q[1] => p = q
  <2> SUFFICES ASSUME NEW p \in P, NEW q \in P, p[1] = q[1] PROVE p = q
    OBVIOUS
  <2>1. ~ (p[2] < q[2]) /\ ~ (q[2] < p[2])
    BY <1>1, <1>2
  <2>2. p[2] = q[2]
    BY <1>1, <2>1
  <2> QED
    BY <1>1, <2>2
<1>4. \A p, q, r \in P : Follows(P, p, q) /\ Follows(P, p, r) => q = r
  <2> SUFFICES ASSUME NEW p \in P, NEW q \in P, NEW r \in P,
                      Follows(P, p, q), Follows(P, p, r)
               PROVE  q = r
    OBVIOUS
  <2>1. ~ (q[1] < r[1]) /\ ~ (r[1] < q[1])
    BY DEF Follows
  <2>2. q[1] = r[1]
    BY <1>1, <2>1
  <2> QED
    BY <1>3, <2>2
<1>5. \A p, q \in P : Follows(P, p, q) => p[1] < q[1] /\ p[2] < q[2]
  BY <1>2 DEF Follows
<1> QED
  BY <1>1, <1>2, <1>3, <1>4, <1>5

EditOf(b, p, q) ==
  [from |-> p[1] + 1, to |-> q[1], segment |-> SubSeq(b, p[2] + 2, q[2])]

\* An edit is the gap between two anchors that follow each other.
LEMMA EditsUnfold ==
  ASSUME NEW a, NEW b, NEW e
  PROVE  e \in Edits(a, b) <=>
           \E p, q \in Anchors(a, b) :
             /\ Follows(Anchors(a, b), p, q)
             /\ q # <<p[1] + 1, p[2] + 1>>
             /\ e = EditOf(b, p, q)
<1> DEFINE P == Anchors(a, b)
           Changed(p, q) == Follows(P, p, q) /\ q # <<p[1] + 1, p[2] + 1>>
<1>1. Edits(a, b) = {EditOf(b, x[1], x[2]) : x \in {y \in P \X P : Changed(y[1], y[2])}}
  BY Zenon DEF Edits, EditOf
<1> HIDE DEF P, Changed
<1>2. ASSUME e \in Edits(a, b) PROVE \E p, q \in P : Changed(p, q) /\ e = EditOf(b, p, q)
  <2>1. PICK x \in {y \in P \X P : Changed(y[1], y[2])} : e = EditOf(b, x[1], x[2])
    BY <1>1, <1>2
  <2>2. x[1] \in P /\ x[2] \in P /\ Changed(x[1], x[2])
    OBVIOUS
  <2> QED
    BY <2>1, <2>2
<1>3. ASSUME NEW p \in P, NEW q \in P, Changed(p, q), e = EditOf(b, p, q)
      PROVE  e \in Edits(a, b)
  <2>1. PICK x : x = <<p, q>>
    OBVIOUS
  <2>2. x \in P \X P /\ x[1] = p /\ x[2] = q
    BY <2>1
  <2>3. x \in {y \in P \X P : Changed(y[1], y[2])}
    BY <1>3, <2>2
  <2> QED
    BY <1>1, <1>3, <2>2, <2>3
<1> QED
  BY <1>2, <1>3 DEF P, Changed

\* The edits of one side lie in the base, and no two of them meet.
LEMMA EditsDoNotMeet ==
  ASSUME NEW S, NEW a \in Seq(S), NEW b \in Seq(S)
  PROVE  EditsOver(Len(a), S, Edits(a, b))
<1> DEFINE P == Anchors(a, b)
<1>0. Len(a) \in Nat /\ Len(b) \in Nat
  OBVIOUS
<1>1. AnchorsOf(a, b, P)
  BY <1>0, AnchorsAreOrdered
<1>2. /\ \A p \in P : p[1] \in -1..Len(a) /\ p[2] \in -1..Len(b) /\ p = <<p[1], p[2]>>
      /\ \A p, q \in P : p[1] = q[1] => p = q
      /\ \A p, q, r \in P : Follows(P, p, q) /\ Follows(P, p, r) => q = r
      /\ \A p, q \in P : Follows(P, p, q) => p[1] < q[1] /\ p[2] < q[2]
  BY <1>0, <1>1, AnchorFacts
<1> HIDE DEF P
<1>3. ASSUME NEW p \in P, NEW q \in P, Follows(P, p, q)
      PROVE  /\ p[1] + 1 \in 0..Len(a)
             /\ q[1] \in (p[1] + 1)..Len(a)
             /\ SubSeq(b, p[2] + 2, q[2]) \in Seq(S)
  <2>1. p[1] \in -1..Len(a) /\ q[1] \in -1..Len(a) /\ p[1] < q[1]
    BY <1>2, <1>3
  <2>2. p[2] \in -1..Len(b) /\ q[2] \in -1..Len(b) /\ p[2] < q[2]
    BY <1>2, <1>3
  <2>3. p[2] + 2 \in 1..(Len(b) + 1) /\ q[2] \in 0..Len(b)
    BY <1>0, <2>2
  <2>4. SubSeq(b, p[2] + 2, q[2]) \in Seq(S)
    BY <2>3, Cut
  <2> QED
    BY <1>0, <2>1, <2>4
<1>4. ASSUME NEW p \in P, NEW q \in P, Follows(P, p, q),
             NEW r \in P, NEW t \in P, Follows(P, r, t)
      PROVE  \/ p = r /\ q = t
             \/ p[1] + 1 < r[1] + 1 /\ q[1] <= r[1] + 1
             \/ r[1] + 1 < p[1] + 1 /\ t[1] <= p[1] + 1
  <2>1. /\ p[1] \in Int /\ q[1] \in Int /\ r[1] \in Int /\ t[1] \in Int
    BY <1>2
  <2>2. CASE p[1] = r[1]
    BY <1>2, <1>4, <2>2
  <2>3. CASE p[1] < r[1]
    <3>1. ~ (r[1] < q[1])
      BY <1>4, <2>3 DEF Follows
    <3> QED
      BY <2>1, <2>3, <3>1
  <2>4. CASE r[1] < p[1]
    <3>1. ~ (p[1] < t[1])
      BY <1>4, <2>4 DEF Follows
    <3> QED
      BY <2>1, <2>4, <3>1
  <2> QED
    BY <2>1, <2>2, <2>3, <2>4
<1>5. ASSUME NEW e \in Edits(a, b)
      PROVE  e.from \in 0..Len(a) /\ e.to \in e.from..Len(a) /\ e.segment \in Seq(S)
  <2>1. PICK p, q \in P : Follows(P, p, q) /\ e = EditOf(b, p, q)
    BY EditsUnfold DEF P
  <2>2. e.from = p[1] + 1 /\ e.to = q[1] /\ e.segment = SubSeq(b, p[2] + 2, q[2])
    BY <2>1 DEF EditOf
  <2> QED
    BY <1>3, <2>1, <2>2
<1>6. ASSUME NEW e \in Edits(a, b), NEW f \in Edits(a, b)
      PROVE  e = f \/ Before(e, f) \/ Before(f, e)
  <2>1. PICK p, q \in P : Follows(P, p, q) /\ e = EditOf(b, p, q)
    BY EditsUnfold DEF P
  <2>2. PICK r, t \in P : Follows(P, r, t) /\ f = EditOf(b, r, t)
    BY EditsUnfold DEF P
  <2>3. e.from = p[1] + 1 /\ e.to = q[1] /\ f.from = r[1] + 1 /\ f.to = t[1]
    BY <2>1, <2>2 DEF EditOf
  <2>4. \/ p = r /\ q = t
        \/ p[1] + 1 < r[1] + 1 /\ q[1] <= r[1] + 1
        \/ r[1] + 1 < p[1] + 1 /\ t[1] <= p[1] + 1
    BY <1>4, <2>1, <2>2
  <2> QED
    BY <2>1, <2>2, <2>3, <2>4 DEF Before
<1> QED
  BY <1>5, <1>6 DEF EditsOver

\* The first i lines of a, then b from line j on.
Mixed(a, b, i, j) == SubSeq(a, 1, i) \o SubSeq(b, j + 1, Len(b))

IsMixed(c, a, b, i, j) ==
  /\ Len(c) = i + (Len(b) - j)
  /\ \A k \in 1..i : c[k] = a[k]
  /\ \A k \in (i + 1)..(i + (Len(b) - j)) : c[k] = b[k - i + j]

\* Length and lines of a mixed text.
LEMMA MixedFacts ==
  ASSUME NEW S, NEW a \in Seq(S), NEW b \in Seq(S), NEW i \in 0..Len(a), NEW j \in 0..Len(b)
  PROVE  /\ Mixed(a, b, i, j) \in Seq(S)
         /\ IsMixed(Mixed(a, b, i, j), a, b, i, j)
<1>1. PICK s \in Seq(S) : s = SubSeq(a, 1, i)
  <2>1. SubSeq(a, 1, i) \in Seq(S)
    BY Prefix
  <2> QED
    BY <2>1
<1>2. PICK t \in Seq(S) : t = SubSeq(b, j + 1, Len(b))
  <2>1. j + 1 \in 1..(Len(b) + 1) /\ Len(b) \in 0..Len(b)
    OBVIOUS
  <2>2. SubSeq(b, j + 1, Len(b)) \in Seq(S)
    BY <2>1, Cut
  <2> QED
    BY <2>2
<1>3. Len(s) = i /\ \A k \in 1..i : s[k] = a[k]
  BY <1>1, Prefix
<1>4. Len(t) = Len(b) - j /\ \A k \in 1..(Len(b) - j) : t[k] = b[k + j]
  BY <1>2
<1>5. /\ s \o t \in Seq(S)
      /\ Len(s \o t) = Len(s) + Len(t)
      /\ \A k \in 1..(Len(s) + Len(t)) :
           (s \o t)[k] = IF k <= Len(s) THEN s[k] ELSE t[k - Len(s)]
  BY ConcatProperties
<1>6. Mixed(a, b, i, j) = s \o t
  BY <1>1, <1>2, Zenon DEF Mixed
<1>7. \A k \in 1..i : (s \o t)[k] = a[k]
  BY <1>3, <1>4, <1>5
<1>8. \A k \in (i + 1)..(i + (Len(b) - j)) : (s \o t)[k] = b[k - i + j]
  <2> TAKE k \in (i + 1)..(i + (Len(b) - j))
  <2>1. k \in 1..(Len(s) + Len(t)) /\ ~ (k <= Len(s)) /\ k - i \in 1..(Len(b) - j)
    BY <1>3, <1>4
  <2>2. (s \o t)[k] = t[k - i]
    BY <1>3, <1>5, <2>1
  <2> QED
    BY <1>4, <2>1, <2>2
<1>9. Len(s \o t) = i + (Len(b) - j)
  BY <1>3, <1>4, <1>5
<1>10. IsMixed(s \o t, a, b, i, j)
  BY <1>7, <1>8, <1>9 DEF IsMixed
<1> QED
  BY <1>5, <1>6, <1>10, Zenon

\* At a matched pair, the line can be taken from either text.
LEMMA MixedShift ==
  ASSUME NEW S, NEW a \in Seq(S), NEW b \in Seq(S),
         NEW i \in Nat, NEW j \in Nat, i < Len(a), j < Len(b), a[i + 1] = b[j + 1]
  PROVE  Mixed(a, b, i + 1, j + 1) = Mixed(a, b, i, j)
<1>1. PICK s \in Seq(S) : s = Mixed(a, b, i, j) /\ IsMixed(s, a, b, i, j)
  <2>1. i \in 0..Len(a) /\ j \in 0..Len(b)
    OBVIOUS
  <2>2. Mixed(a, b, i, j) \in Seq(S) /\ IsMixed(Mixed(a, b, i, j), a, b, i, j)
    BY <2>1, MixedFacts
  <2> QED
    BY <2>2
<1>2. PICK t \in Seq(S) : t = Mixed(a, b, i + 1, j + 1) /\ IsMixed(t, a, b, i + 1, j + 1)
  <2>1. i + 1 \in 0..Len(a) /\ j + 1 \in 0..Len(b)
    OBVIOUS
  <2>2. Mixed(a, b, i + 1, j + 1) \in Seq(S) /\ IsMixed(Mixed(a, b, i + 1, j + 1), a, b, i + 1, j + 1)
    BY <2>1, MixedFacts
  <2> QED
    BY <2>2
<1>3. /\ Len(s) = i + (Len(b) - j)
      /\ \A k \in 1..i : s[k] = a[k]
      /\ \A k \in (i + 1)..(i + (Len(b) - j)) : s[k] = b[k - i + j]
  <2>1. IsMixed(s, a, b, i, j)
    BY <1>1
  <2> QED
    BY <2>1 DEF IsMixed
<1>4. /\ Len(t) = i + (Len(b) - j)
      /\ \A k \in 1..(i + 1) : t[k] = a[k]
      /\ \A k \in (i + 2)..(i + (Len(b) - j)) : t[k] = b[k - i + j]
  <2>1. IsMixed(t, a, b, i + 1, j + 1)
    BY <1>2
  <2>2. /\ Len(t) = (i + 1) + (Len(b) - (j + 1))
        /\ \A k \in 1..(i + 1) : t[k] = a[k]
        /\ \A k \in ((i + 1) + 1)..((i + 1) + (Len(b) - (j + 1))) : t[k] = b[k - (i + 1) + (j + 1)]
    BY <2>1 DEF IsMixed
  <2>3. ASSUME NEW k \in (i + 2)..(i + (Len(b) - j)) PROVE t[k] = b[k - i + j]
    <3>1. /\ k \in ((i + 1) + 1)..((i + 1) + (Len(b) - (j + 1)))
          /\ k - (i + 1) + (j + 1) = k - i + j
      OBVIOUS
    <3> QED
      BY <2>2, <3>1
  <2>4. Len(t) = i + (Len(b) - j)
    BY <2>2
  <2> QED
    BY <2>2, <2>3, <2>4
<1>5. ASSUME NEW k \in 1..Len(s) PROVE t[k] = s[k]
  <2>1. CASE k <= i
    <3>1. k \in 1..i /\ k \in 1..(i + 1)
      BY <2>1
    <3> QED
      BY <1>3, <1>4, <3>1
  <2>2. CASE k = i + 1
    <3>1. k - i + j = j + 1
      BY <2>2
    <3> QED
      BY <1>3, <1>4, <2>2, <3>1
  <2>3. CASE k >= i + 2
    BY <1>3, <1>4, <2>3
  <2> QED
    BY <2>1, <2>2, <2>3
<1>6. s = t
  BY <1>3, <1>4, <1>5, SeqEqual
<1> QED
  BY <1>1, <1>2, <1>6, Zenon

\* A splice moves the border between the two texts back.
LEMMA MixedSplice ==
  ASSUME NEW S, NEW a \in Seq(S), NEW b \in Seq(S),
         NEW i \in Nat, NEW i2 \in Nat, NEW j \in Nat, NEW j2 \in Nat,
         i <= i2, i2 <= Len(a), j <= j2, j2 <= Len(b)
  PROVE  Spliced(Mixed(a, b, i2, j2), i, i2, SubSeq(b, j + 1, j2)) = Mixed(a, b, i, j)
<1>1. PICK c \in Seq(S) : c = Mixed(a, b, i2, j2) /\ IsMixed(c, a, b, i2, j2)
  <2>1. i2 \in 0..Len(a) /\ j2 \in 0..Len(b)
    OBVIOUS
  <2>2. Mixed(a, b, i2, j2) \in Seq(S) /\ IsMixed(Mixed(a, b, i2, j2), a, b, i2, j2)
    BY <2>1, MixedFacts
  <2> QED
    BY <2>2
<1>2. /\ Len(c) = i2 + (Len(b) - j2)
      /\ \A k \in 1..i2 : c[k] = a[k]
      /\ \A k \in (i2 + 1)..(i2 + (Len(b) - j2)) : c[k] = b[k - i2 + j2]
  <2>1. IsMixed(c, a, b, i2, j2)
    BY <1>1
  <2> QED
    BY <2>1 DEF IsMixed
<1>3. SubSeq(c, 1, i) = SubSeq(a, 1, i)
  <2>1. Agree(c, a, i)
    BY <1>2 DEF Agree
  <2> QED
    BY <2>1, SamePrefix
<1>4. SubSeq(c, i2 + 1, Len(c)) = SubSeq(b, j2 + 1, Len(b))
  <2>1. PICK s \in Seq(S) : s = SubSeq(c, i2 + 1, Len(c))
    <3>1. i2 + 1 \in 1..(Len(c) + 1) /\ Len(c) \in 0..Len(c)
      BY <1>2
    <3>2. SubSeq(c, i2 + 1, Len(c)) \in Seq(S)
      BY <3>1, Cut
    <3> QED
      BY <3>2
  <2>2. PICK t \in Seq(S) : t = SubSeq(b, j2 + 1, Len(b))
    <3>1. j2 + 1 \in 1..(Len(b) + 1) /\ Len(b) \in 0..Len(b)
      OBVIOUS
    <3>2. SubSeq(b, j2 + 1, Len(b)) \in Seq(S)
      BY <3>1, Cut
    <3> QED
      BY <3>2
  <2>3. Len(s) = Len(b) - j2 /\ \A k \in 1..(Len(b) - j2) : s[k] = c[k + i2]
    <3>1. Len(c) - i2 = Len(b) - j2 /\ i2 <= Len(c)
      BY <1>2
    <3>2. Len(s) = Len(c) - i2 /\ \A k \in 1..(Len(c) - i2) : s[k] = c[k + i2]
      BY <2>1, <3>1
    <3> QED
      BY <3>1, <3>2
  <2>4. Len(t) = Len(b) - j2 /\ \A k \in 1..(Len(b) - j2) : t[k] = b[k + j2]
    BY <2>2, SMTT(30)
  <2>5. ASSUME NEW k \in 1..(Len(b) - j2) PROVE s[k] = t[k]
    <3>1. k + i2 \in (i2 + 1)..(i2 + (Len(b) - j2)) /\ (k + i2) - i2 + j2 = k + j2
      OBVIOUS
    <3> QED
      BY <1>2, <2>3, <2>4, <3>1
  <2>6. s = t
    BY <2>3, <2>4, <2>5, SeqEqual
  <2> QED
    BY <2>1, <2>2, <2>6, Zenon
<1>5. SubSeq(b, j + 1, Len(b)) = SubSeq(b, j + 1, j2) \o SubSeq(b, j2 + 1, Len(b))
  <2>1. j + 1 \in 1..(Len(b) + 1) /\ j2 \in ((j + 1) - 1)..Len(b) /\ Len(b) \in j2..Len(b)
    OBVIOUS
  <2> QED
    BY <2>1, ConcatAdjacentSubSeq
<1>6. Spliced(c, i, i2, SubSeq(b, j + 1, j2)) = SplicedRight(c, i, i2, SubSeq(b, j + 1, j2))
  <2>1. i \in 0..Len(c) /\ i2 \in i..Len(c)
    <3>1. Len(c) = i2 + (Len(b) - j2)
      BY <1>2
    <3>2. Len(c) >= i2 /\ Len(c) \in Nat
      BY <3>1
    <3> QED
      BY <3>2
  <2>2. SubSeq(b, j + 1, j2) \in Seq(S)
    <3>1. j + 1 \in 1..(Len(b) + 1) /\ j2 \in 0..Len(b)
      OBVIOUS
    <3> QED
      BY <3>1, Cut
  <2> QED
    BY <2>1, <2>2, SplicedIsSplicedRight
<1> QED
  BY <1>1, <1>3, <1>4, <1>5, <1>6, Zenon DEF SplicedRight, Mixed

\* Nothing happens between two edits.
LEMMA NoEdits ==
  ASSUME NEW lines, Len(lines) \in Nat, NEW S, NEW es, EditsOver(Len(lines), S, es),
         NEW after, Afters(lines, es, after),
         NEW i \in Nat, NEW j \in Nat, i <= j, j <= Len(lines) + 1,
         \A e \in es : e.from < i \/ j <= e.from
  PROVE  after[i] = after[j]
<1> DEFINE G == {k \in 0..(j - i) : after[i + k] = after[j]}
<1>1. j - i \in Nat /\ i + (j - i) = j
  OBVIOUS
<1>2. j - i \in G
  BY <1>1
<1>3. ASSUME NEW k \in 0..((j - i) - 1), k + 1 \in G PROVE k \in G
  <2>1. i + k \in 0..Len(lines) /\ i + k < j /\ ~ (i + k < i) /\ (i + k) + 1 = i + (k + 1)
    OBVIOUS
  <2>2. \A e \in es : e.from # i + k
    BY <2>1 DEF EditsOver
  <2>3. after[i + k] = after[(i + k) + 1]
    BY <2>1, <2>2, SpliceSteps
  <2>4. after[i + (k + 1)] = after[j]
    BY <1>3
  <2>5. after[i + k] = after[j] /\ k \in 0..(j - i)
    BY <2>1, <2>3, <2>4
  <2> QED
    BY <2>5
<1>4. 0 \in G
  <2> HIDE DEF G
  <2>1. 0..(j - i) \subseteq G
    BY <1>1, <1>2, <1>3, Downward
  <2> QED
    BY <1>1, <2>1
<1>5. after[i + 0] = after[j] /\ i + 0 = i
  BY <1>4
<1> QED
  BY <1>5

\* Every anchor but the last has a next one.
LEMMA NextAnchor ==
  ASSUME NEW a, NEW b, Len(a) \in Nat, Len(b) \in Nat, NEW P, AnchorsOf(a, b, P),
         NEW p \in P, p[1] < Len(a) \/ p[2] < Len(b)
  PROVE  \E q \in P : Follows(P, p, q)
<1> DEFINE T == {q[1] : q \in {r \in P : p[1] < r[1]}}
<1>1. /\ \A q \in P : q[1] \in -1..Len(a) /\ q[2] \in -1..Len(b)
      /\ \A q, r \in P : q[1] < r[1] <=> q[2] < r[2]
  BY AnchorFacts
<1>2. PICK z : z = <<Len(a), Len(b)>>
  OBVIOUS
<1>3. z \in P /\ z[1] = Len(a) /\ z[2] = Len(b)
  BY <1>2 DEF AnchorsOf
<1>4. p[1] < z[1]
  BY <1>1, <1>3
<1>5. T \subseteq Nat
  BY <1>1
<1>6. T # {}
  BY <1>3, <1>4
<1>7. PICK x \in T : \A y \in T : x <= y
  BY <1>5, <1>6, LeastElement
<1>8. PICK q \in P : p[1] < q[1] /\ x = q[1]
  BY <1>7
<1>9. \A r \in P : p[1] < r[1] => x <= r[1]
  BY <1>7
<1>10. \A r \in P : ~ (p[1] < r[1] /\ r[1] < q[1])
  BY <1>1, <1>8, <1>9
<1> QED
  BY <1>8, <1>10 DEF Follows

\* Splicing in the edits that turn a into b turns a into b.
LEMMA Replay ==
  ASSUME NEW S, NEW a \in Seq(S), NEW b \in Seq(S)
  PROVE  Splice(a, Edits(a, b)) = b
<1> DEFINE P == Anchors(a, b)
           es == Edits(a, b)
<1>0. Len(a) \in Nat /\ Len(b) \in Nat
  OBVIOUS
<1>1. AnchorsOf(a, b, P)
  BY <1>0, AnchorsAreOrdered
<1>2. /\ \A p \in P : p[1] \in -1..Len(a) /\ p[2] \in -1..Len(b) /\ p = <<p[1], p[2]>>
      /\ \A p, q \in P : p[1] < q[1] <=> p[2] < q[2]
      /\ \A p, q \in P : p[1] = q[1] => p = q
      /\ \A p, q, r \in P : Follows(P, p, q) /\ Follows(P, p, r) => q = r
      /\ \A p, q \in P : Follows(P, p, q) => p[1] < q[1] /\ p[2] < q[2]
  BY <1>0, <1>1, AnchorFacts
<1>3. EditsOver(Len(a), S, es)
  BY EditsDoNotMeet
<1>4. PICK after : Afters(a, es, after) /\ Splice(a, es) = after[0]
  BY <1>0, SpliceIsRecursive
<1>5. \A e : e \in es <=>
         \E p, q \in P : /\ Follows(P, p, q)
                         /\ q # <<p[1] + 1, p[2] + 1>>
                         /\ e = EditOf(b, p, q)
  BY EditsUnfold
<1> HIDE DEF P, es
<1> DEFINE Done(p) == after[p[1] + 1] = Mixed(a, b, p[1] + 1, p[2] + 1)
           G == {k \in Nat : \A p \in P : p[1] < Len(a) /\ Len(a) - p[1] = k => Done(p)}
<1>6. ASSUME NEW p \in P, NEW q \in P, Follows(P, p, q),
             q[1] < Len(a) => Done(q)
      PROVE  after[q[1] + 1] = Mixed(a, b, q[1], q[2])
  <2>1. p[1] < q[1] /\ p[2] < q[2]
    BY <1>2, <1>6
  <2>2. p[1] \in -1..Len(a) /\ p[2] \in -1..Len(b) /\ q[1] \in -1..Len(a) /\ q[2] \in -1..Len(b)
    BY <1>2
  <2>3. CASE q[1] = Len(a)
    <3>1. PICK z : z = <<Len(a), Len(b)>>
      OBVIOUS
    <3>2. z \in P /\ z[1] = Len(a) /\ z[2] = Len(b)
      BY <1>1, <3>1 DEF AnchorsOf
    <3>3. q[2] = Len(b)
      BY <1>2, <2>3, <3>2
    <3>4. after[Len(a) + 1] = a
      BY <1>0, <1>3, <1>4, SpliceSteps
    <3>5. Mixed(a, b, Len(a), Len(b)) = a
      <4>1. SubSeq(b, Len(b) + 1, Len(b)) = <<>> /\ SubSeq(a, 1, Len(a)) = a
        OBVIOUS
      <4>2. a \o <<>> = a
        BY ConcatEmptySeq
      <4> QED
        BY <4>1, <4>2, Zenon DEF Mixed
    <3> QED
      BY <2>3, <3>3, <3>4, <3>5, Zenon
  <2>4. CASE q[1] < Len(a)
    <3>1. Done(q)
      BY <1>6, <2>4
    <3>2. q[1] >= 0 /\ q[2] >= 0 /\ q[2] < Len(b) /\ a[q[1] + 1] = b[q[2] + 1]
      <4>1. \/ q[1] = -1 /\ q[2] = -1
            \/ q[1] = Len(a) /\ q[2] = Len(b)
            \/ q[1] >= 0 /\ q[2] >= 0 /\ q[1] < Len(a) /\ q[2] < Len(b)
                 /\ a[q[1] + 1] = b[q[2] + 1]
        BY <1>1 DEF AnchorsOf
      <4> QED
        BY <2>1, <2>2, <2>4, <4>1
    <3>3. q[1] \in Nat /\ q[2] \in Nat
      BY <2>2, <3>2
    <3>4. Mixed(a, b, q[1] + 1, q[2] + 1) = Mixed(a, b, q[1], q[2])
      BY <2>4, <3>2, <3>3, MixedShift
    <3> QED
      BY <3>1, <3>4, Zenon
  <2> QED
    BY <1>0, <2>2, <2>3, <2>4
<1>7. ASSUME NEW p \in P, NEW q \in P, Follows(P, p, q),
             after[q[1] + 1] = Mixed(a, b, q[1], q[2])
      PROVE  Done(p)
  <2>1. p[1] < q[1] /\ p[2] < q[2]
    BY <1>2, <1>7
  <2>2. p[1] \in -1..Len(a) /\ p[2] \in -1..Len(b) /\ q[1] \in -1..Len(a) /\ q[2] \in -1..Len(b)
    BY <1>2
  <2>3. \A e \in es : e.from < p[1] + 2 \/ q[1] + 1 <= e.from
    <3> SUFFICES ASSUME NEW e \in es PROVE e.from < p[1] + 2 \/ q[1] + 1 <= e.from
      OBVIOUS
    <3>1. PICK r \in P : e.from = r[1] + 1
      BY <1>5 DEF EditOf
    <3>2. ~ (p[1] < r[1] /\ r[1] < q[1])
      BY <1>7 DEF Follows
    <3>3. r[1] \in -1..Len(a)
      BY <1>2
    <3> QED
      BY <2>2, <3>1, <3>2, <3>3
  <2>4. after[p[1] + 2] = after[q[1] + 1]
    <3>1. /\ p[1] + 2 \in Nat /\ q[1] + 1 \in Nat
          /\ p[1] + 2 <= q[1] + 1 /\ q[1] + 1 <= Len(a) + 1
      BY <1>0, <2>1, <2>2
    <3> QED
      BY <1>0, <1>3, <1>4, <2>3, <3>1, NoEdits
  <2>5. after[p[1] + 2] = Mixed(a, b, q[1], q[2])
    BY <1>7, <2>4, Zenon
  <2>6. /\ p[1] + 1 \in Nat /\ q[1] \in Nat /\ p[2] + 1 \in Nat /\ q[2] \in Nat
        /\ p[1] + 1 <= q[1] /\ q[1] <= Len(a) /\ p[2] + 1 <= q[2] /\ q[2] <= Len(b)
        /\ (p[1] + 1) + 1 = p[1] + 2 /\ (p[2] + 1) + 1 = p[2] + 2
        /\ p[1] + 1 \in 0..Len(a)
    BY <1>0, <2>1, <2>2, SMTT(30)
  <2>7. CASE q = <<p[1] + 1, p[2] + 1>>
    <3>1. q[1] = p[1] + 1 /\ q[2] = p[2] + 1
      BY <2>7
    <3>2. \A e \in es : e.from # p[1] + 1
      <4> SUFFICES ASSUME NEW e \in es, e.from = p[1] + 1 PROVE FALSE
        OBVIOUS
      <4>1. PICK r, t \in P : /\ Follows(P, r, t)
                              /\ t # <<r[1] + 1, r[2] + 1>>
                              /\ e = EditOf(b, r, t)
        BY <1>5
      <4>2. r[1] + 1 = p[1] + 1
        BY <4>1 DEF EditOf
      <4>3. r[1] \in -1..Len(a)
        BY <1>2
      <4>4. r[1] = p[1]
        BY <2>2, <4>2, <4>3
      <4>5. r = p
        BY <1>2, <4>4
      <4> QED
        BY <1>2, <1>7, <2>7, <4>1, <4>5
    <3>3. after[p[1] + 1] = after[(p[1] + 1) + 1]
      BY <1>0, <1>3, <1>4, <2>6, <3>2, SpliceSteps, SMTT(30)
    <3> QED
      BY <2>5, <2>6, <3>1, <3>3
  <2>8. CASE q # <<p[1] + 1, p[2] + 1>>
    <3>1. PICK e \in es : e = EditOf(b, p, q)
      BY <1>5, <1>7, <2>8
    <3>2. e.from = p[1] + 1 /\ e.to = q[1] /\ e.segment = SubSeq(b, p[2] + 2, q[2])
      BY <3>1 DEF EditOf
    <3>3. after[e.from] = Replaced(after[e.from + 1], e)
      BY <1>0, <1>3, <1>4, SpliceSteps
    <3>4. Replaced(after[e.from + 1], e) =
            Spliced(after[e.from + 1], e.from, e.to, e.segment)
      BY Zenon DEF Replaced, Spliced
    <3>5. after[e.from + 1] = Mixed(a, b, q[1], q[2])
      BY <2>5, <2>6, <3>2
    <3>6. e.segment = SubSeq(b, (p[2] + 1) + 1, q[2])
      BY <2>6, <3>2
    <3>7. after[p[1] + 1] =
            Spliced(Mixed(a, b, q[1], q[2]), p[1] + 1, q[1], SubSeq(b, (p[2] + 1) + 1, q[2]))
      BY <3>2, <3>3, <3>4, <3>5, <3>6, Zenon
    <3>8. Spliced(Mixed(a, b, q[1], q[2]), p[1] + 1, q[1], SubSeq(b, (p[2] + 1) + 1, q[2]))
            = Mixed(a, b, p[1] + 1, p[2] + 1)
      <4>1. PICK i, i2, j, j2 : i = p[1] + 1 /\ i2 = q[1] /\ j = p[2] + 1 /\ j2 = q[2]
        OBVIOUS
      <4>2. /\ i \in Nat /\ i2 \in Nat /\ j \in Nat /\ j2 \in Nat
            /\ i <= i2 /\ i2 <= Len(a) /\ j <= j2 /\ j2 <= Len(b)
        BY <2>6, <4>1, Zenon
      <4>3. Spliced(Mixed(a, b, i2, j2), i, i2, SubSeq(b, j + 1, j2)) = Mixed(a, b, i, j)
        BY <4>2, MixedSplice
      <4> QED
        BY <4>1, <4>3, Zenon
    <3> QED
      BY <3>7, <3>8, Zenon
  <2> QED
    BY <2>7, <2>8
<1>8. ASSUME NEW k \in Nat, \A i \in 0..(k - 1) : i \in G PROVE k \in G
  <2> SUFFICES ASSUME NEW p \in P, p[1] < Len(a), Len(a) - p[1] = k PROVE Done(p)
    OBVIOUS
  <2>1. PICK q \in P : Follows(P, p, q)
    BY <1>0, <1>1, NextAnchor
  <2>2. p[1] < q[1] /\ p[1] \in Int /\ q[1] \in Int
    BY <1>2, <2>1
  <2>3. q[1] < Len(a) => Done(q)
    <3> SUFFICES ASSUME q[1] < Len(a) PROVE Done(q)
      OBVIOUS
    <3>1. Len(a) - q[1] \in 0..(k - 1)
      BY <1>0, <2>2
    <3>2. Len(a) - q[1] \in G
      BY <1>8, <3>1
    <3> HIDE DEF Done
    <3> QED
      BY <3>2
  <2> HIDE DEF Done
  <2> QED
    BY <1>6, <1>7, <2>1, <2>3
<1>9. Nat \subseteq G
  <2> HIDE DEF G
  <2> QED
    BY <1>8, Upward
<1>10. PICK p : p = <<-1, -1>>
  OBVIOUS
<1>11. p \in P /\ p[1] = -1 /\ p[2] = -1
  BY <1>1, <1>10 DEF AnchorsOf
<1>12. Done(p)
  <2>1. Len(a) - p[1] \in Nat /\ p[1] < Len(a)
    BY <1>0, <1>11
  <2>2. Len(a) - p[1] \in G
    BY <1>9, <2>1
  <2> HIDE DEF Done
  <2> QED
    BY <1>11, <2>1, <2>2
<1>13. p[1] + 1 = 0 /\ p[2] + 1 = 0
  BY <1>11
<1>14. after[0] = Mixed(a, b, 0, 0)
  BY <1>12, <1>13
<1>15. Mixed(a, b, 0, 0) = b
  <2>1. SubSeq(a, 1, 0) = <<>> /\ SubSeq(b, 0 + 1, Len(b)) = b
    OBVIOUS
  <2>2. <<>> \o b = b
    BY ConcatEmptySeq
  <2> QED
    BY <2>1, <2>2, Zenon DEF Mixed
<1> QED
  BY <1>4, <1>14, <1>15, Zenon DEF es

\* A text that was not changed has no edits.
LEMMA NoChangeNoEdits ==
  ASSUME NEW S, NEW a \in Seq(S)
  PROVE  Edits(a, a) = {}
<1> DEFINE P == Anchors(a, a)
           n == Len(a)
<1>0. n \in Nat
  OBVIOUS
<1>1. \A i \in 0..(n - 1) : <<i, i>> \in Matched(a, a)
  <2> SUFFICES ASSUME NEW i \in 0..(n - 1) PROVE <<i, i>> \in Matched(a, a)
    OBVIOUS
  <2>1. PICK matched : /\ Blocks(a, a, matched)
                       /\ Matched(a, a) = matched[<<0, n, 0, n>>]
    BY <1>0, MatchedIsRecursive
  <2>2. PICK w : w = <<0, n, 0, n>>
    OBVIOUS
  <2>3. w \in Windows(a, a) /\ w[1] = 0 /\ w[2] = n /\ w[3] = 0 /\ w[4] = n
    BY <1>0, <2>2 DEF Windows
  <2>4. PICK t : t = <<0, 0, n>>
    OBVIOUS
  <2>5. t \in Runs(a, a, w)
    BY <1>0, <2>3, <2>4 DEF Runs
  <2>6. PICK r : r = Best(Runs(a, a, w))
    OBVIOUS
  <2>7. r \in Runs(a, a, w) /\ Better(r, t)
    BY <1>0, <2>3, <2>5, <2>6, BestInWindow
  <2>8. r[1] = 0 /\ r[2] = 0 /\ r[3] = n
    <3>1. /\ r[1] \in 0..n /\ r[2] \in 0..n /\ r[3] \in 1..(n - 0)
          /\ r[1] + r[3] <= n /\ r[2] + r[3] <= n
      BY <1>0, <2>3, <2>7, RunsType
    <3>2. r[3] >= n
      BY <1>0, <2>4, <2>7, <3>1 DEF Better
    <3> QED
      BY <1>0, <3>1, <3>2, WholeRun
  <2>9. <<i, i>> \in Diagonal(r)
    <3>1. i = r[1] + i /\ i = r[2] + i /\ i \in 0..(r[3] - 1)
      BY <2>8
    <3>2. <<r[1] + i, r[2] + i>> \in Diagonal(r)
      BY <3>1, Zenon DEF Diagonal
    <3> QED
      BY <3>1, <3>2
  <2>10. matched[w] = Block(a, a, w, matched)
    BY <2>1, <2>3, Zenon DEF Blocks
  <2>11. Runs(a, a, w) # {}
    BY <2>5
  <2>12. Diagonal(r) \subseteq matched[w]
    BY <2>6, <2>10, <2>11, Zenon DEF Block
  <2> QED
    BY <2>1, <2>2, <2>9, <2>12
<1>2. AnchorsOf(a, a, P)
  BY <1>0, AnchorsAreOrdered
<1>3. /\ \A p \in P : p[1] \in -1..n /\ p[2] \in -1..n /\ p = <<p[1], p[2]>>
      /\ \A p, q \in P : p[1] = q[1] => p = q
      /\ \A p, q \in P : Follows(P, p, q) => p[1] < q[1]
  BY <1>0, <1>2, AnchorFacts
<1>4. \A i \in -1..n : <<i, i>> \in P
  <2> SUFFICES ASSUME NEW i \in -1..n PROVE <<i, i>> \in P
    OBVIOUS
  <2>1. CASE i = -1
    BY <2>1 DEF Anchors
  <2>2. CASE i = n
    BY <2>2 DEF Anchors
  <2>3. CASE i # -1 /\ i # n
    <3>1. i \in 0..(n - 1)
      BY <1>0, <2>3
    <3> QED
      BY <1>1, <3>1 DEF Anchors
  <2> QED
    BY <2>1, <2>2, <2>3
<1> HIDE DEF P
<1>5. \A p \in P : p[2] = p[1]
  <2> TAKE p \in P
  <2>1. PICK d : d = <<p[1], p[1]>>
    OBVIOUS
  <2>2. d \in P /\ d[1] = p[1] /\ d[2] = p[1]
    BY <1>3, <1>4, <2>1
  <2>3. p = d
    BY <1>3, <2>2
  <2> QED
    BY <2>2, <2>3
<1>6. ASSUME NEW p \in P, NEW q \in P, Follows(P, p, q) PROVE q = <<p[1] + 1, p[2] + 1>>
  <2>1. p[1] \in -1..n /\ q[1] \in -1..n /\ p[1] < q[1]
    BY <1>3, <1>6
  <2>2. PICK d : d = <<p[1] + 1, p[1] + 1>>
    OBVIOUS
  <2>3. d \in P /\ d[1] = p[1] + 1
    BY <1>0, <1>4, <2>1, <2>2
  <2>4. ~ (p[1] < d[1] /\ d[1] < q[1])
    BY <1>6, <2>3 DEF Follows
  <2>5. q[1] = d[1]
    BY <1>0, <2>1, <2>3, <2>4
  <2>6. q = d /\ p[2] = p[1]
    BY <1>3, <1>5, <2>3, <2>5
  <2> QED
    BY <2>2, <2>6
<1>7. \A e : e \notin Edits(a, a)
  BY <1>6, EditsUnfold DEF P
<1> QED
  BY <1>7

------------------------------------------------------------------------------
(* What a merge does to the number of occurrences of a line. *)

LEMMA NoConflictNoMeeting ==
  ASSUME NEW n \in Nat, NEW S, NEW es, EditsOver(n, S, es), NEW fs, EditsOver(n, S, fs),
         ~ Conflicting(es, fs)
  PROVE  EditsOver(n, S, es \union fs) /\ es \intersect fs = {}
<1>1. \A e \in es \union fs :
        e.from \in 0..n /\ e.to \in e.from..n /\ e.segment \in Seq(S)
  BY DEF EditsOver
<1>2. \A e \in es, f \in fs : Before(e, f) \/ Before(f, e)
  <2> SUFFICES ASSUME NEW e \in es, NEW f \in fs PROVE Before(e, f) \/ Before(f, e)
    OBVIOUS
  <2>1. ~ Overlap(e, f)
    BY DEF Conflicting
  <2>2. /\ e.from \in Nat /\ e.to \in Nat /\ e.from <= e.to
        /\ f.from \in Nat /\ f.to \in Nat /\ f.from <= f.to
    BY <1>1
  <2> QED
    BY <2>1, <2>2 DEF Overlap, TouchedEnd, Before
<1>3. \A e \in es \union fs : ~ Before(e, e)
  BY <1>1 DEF Before
<1>4. \A e, f \in es : e = f \/ Before(e, f) \/ Before(f, e)
  BY DEF EditsOver
<1>5. \A e, f \in fs : e = f \/ Before(e, f) \/ Before(f, e)
  BY DEF EditsOver
<1>6. \A e, f \in es \union fs : e = f \/ Before(e, f) \/ Before(f, e)
  BY <1>2, <1>4, <1>5, Zenon
<1>7. es \intersect fs = {}
  BY <1>2, <1>3
<1> QED
  BY <1>1, <1>6, <1>7 DEF EditsOver

Accounted(m, x, y, z) ==
  \A l : l # Blank =>
    Count(m.lines, l) + Count(x.lines, l) = Count(y.lines, l) + Count(z.lines, l)

\* A merge is the splitlines() of some string, and it accounts for every line
\* that is not blank.
LEMMA MergeAccounts ==
  ASSUME NEW S, Blank \in S, NEW x \in Texts(S), NEW y \in Texts(S), NEW z \in Texts(S),
         CanMerge(x, y, z)
  PROVE  Merge(x, y, z) \in Texts(S) /\ Accounted(Merge(x, y, z), x, y, z)
<1>1. PICK xs \in Seq(S) : xs = x.lines
  BY TextsElim
<1>2. PICK ys \in Seq(S) : ys = y.lines
  BY TextsElim
<1>3. PICK zs \in Seq(S) : zs = z.lines
  BY TextsElim
<1>4. y.nl \in BOOLEAN /\ z.nl \in BOOLEAN
  BY TextsElim
<1>5. PICK es, fs : es = Edits(xs, ys) /\ fs = Edits(xs, zs)
  OBVIOUS
<1>6. EditsOver(Len(xs), S, es) /\ EditsOver(Len(xs), S, fs)
  BY <1>5, EditsDoNotMeet
<1>7. ~ Conflicting(es, fs)
  BY <1>1, <1>2, <1>3, <1>5, Zenon DEF CanMerge
<1>8. EditsOver(Len(xs), S, es \union fs) /\ es \intersect fs = {}
  <2>1. Len(xs) \in Nat
    OBVIOUS
  <2> QED
    BY <1>6, <1>7, <2>1, NoConflictNoMeeting
<1>9. Splice(xs, es) = ys /\ Splice(xs, fs) = zs
  BY <1>5, Replay
<1>10. PICK ms \in Seq(S) : ms = Splice(xs, es \union fs)
  BY <1>8, Accounting
<1>11. \A l : Count(ms, l) + Count(xs, l) = Count(ys, l) + Count(zs, l)
  <2> TAKE l
  <2>1. Count(Splice(xs, es \union fs), l) + Count(xs, l)
          = Count(Splice(xs, es), l) + Count(Splice(xs, fs), l)
    BY <1>8, Accounting
  <2> QED
    BY <1>9, <1>10, <2>1, Zenon
<1>12. PICK nl \in BOOLEAN : nl = (y.nl \/ z.nl)
  BY <1>4
<1>13. Merge(x, y, z) = Join(ms, nl)
  BY <1>1, <1>2, <1>3, <1>5, <1>10, <1>12, Zenon DEF Merge
<1>14. /\ Join(ms, nl) \in Texts(S)
       /\ \A l : l # Blank => Count(Join(ms, nl).lines, l) = Count(ms, l)
  BY JoinCounts
<1> QED
  BY <1>1, <1>2, <1>3, <1>11, <1>13, <1>14, Zenon DEF Accounted

------------------------------------------------------------------------------
(* Splicing from the back is the position-by-position union. *)

Inserted(es, i) == IF \E e \in es : e.from = i THEN EditAt(es, i).segment ELSE <<>>

Kept(lines, es, i) ==
  IF i < Len(lines) /\ \A e \in es : ~ (e.from <= i /\ i < e.to)
  THEN <<lines[i + 1]>> ELSE <<>>

\* The intermediate lists of MergedLines.
Rests(lines, es, rest) ==
  rest = [i \in 0..(Len(lines) + 1) |->
            IF i = Len(lines) + 1 THEN <<>>
            ELSE Inserted(es, i) \o Kept(lines, es, i) \o rest[i + 1]]

\* MergedLines' recursion defines a function, and MergedLines is its last value.
LEMMA MergedLinesIsRecursive ==
  ASSUME NEW lines, Len(lines) \in Nat, NEW es
  PROVE  \E rest : Rests(lines, es, rest) /\ MergedLines(lines, es) = rest[0]
<1> DEFINE n == Len(lines)
           Step(p, next) == Inserted(es, p) \o Kept(lines, es, p) \o next
           Until(k, g) == g = [p \in k..(n + 1) |->
                                 IF p = n + 1 THEN <<>> ELSE Step(p, g[p + 1])]
           G == {k \in 0..(n + 1) : \E g : Until(k, g)}
<1>1. n + 1 \in G
  <2> DEFINE g == [p \in (n + 1)..(n + 1) |-> <<>>]
  <2> HIDE DEF Step
  <2>1. g = [p \in (n + 1)..(n + 1) |-> IF p = n + 1 THEN <<>> ELSE Step(p, g[p + 1])]
    <3>1. \A p \in (n + 1)..(n + 1) : p = n + 1
      OBVIOUS
    <3> QED
      BY <3>1, Zenon
  <2>2. n + 1 \in 0..(n + 1)
    OBVIOUS
  <2> QED
    BY <2>1, <2>2
<1>2. ASSUME NEW k \in 0..n, k + 1 \in G PROVE k \in G
  <2> HIDE DEF Step
  <2>1. PICK g : Until(k + 1, g)
    BY <1>2
  <2> DEFINE h == [p \in k..(n + 1) |-> IF p = k THEN Step(k, g[k + 1]) ELSE g[p]]
  <2>2. \A p \in (k + 1)..(n + 1) : g[p] = IF p = n + 1 THEN <<>> ELSE Step(p, g[p + 1])
    BY <2>1
  <2>3. \A p \in (k + 1)..(n + 1) : h[p] = g[p]
    OBVIOUS
  <2>4. h[k] = Step(k, h[k + 1])
    BY <2>3
  <2>5. ASSUME NEW p \in k..(n + 1)
        PROVE  h[p] = IF p = n + 1 THEN <<>> ELSE Step(p, h[p + 1])
    <3>1. CASE p = k
      BY <2>4, <3>1
    <3>2. CASE p # k
      BY <2>2, <2>3, <3>2
    <3> QED
      BY <3>1, <3>2
  <2>6. Until(k, h)
    <3> HIDE DEF h
    <3> SUFFICES h = [p \in k..(n + 1) |-> h[p]]
      BY <2>5, Zenon
    <3> QED
      BY DEF h
  <2>7. k \in 0..(n + 1)
    OBVIOUS
  <2> HIDE DEF Until
  <2> QED
    BY <2>6, <2>7
<1>3. 0 \in G
  <2> HIDE DEF G
  <2>1. 0..(n + 1) \subseteq G
    BY <1>1, <1>2, Downward
  <2> QED
    BY <2>1
<1>4. PICK g : Until(0, g)
  BY <1>3
<1>5. Rests(lines, es, g)
  BY <1>4, Zenon DEF Rests
<1>6. MergedLines(lines, es) = (CHOOSE rest : Rests(lines, es, rest))[0]
  BY Zenon DEF MergedLines, Rests, Inserted, Kept
<1> QED
  BY <1>5, <1>6, Zenon

\* Each step of MergedLines, and that all of them are lists of lines.
LEMMA RestSteps ==
  ASSUME NEW S, NEW lines \in Seq(S), NEW es, EditsOver(Len(lines), S, es),
         NEW rest, Rests(lines, es, rest)
  PROVE  /\ rest[Len(lines) + 1] = <<>>
         /\ \A p \in 0..Len(lines) :
              /\ rest[p] = Inserted(es, p) \o Kept(lines, es, p) \o rest[p + 1]
              /\ Inserted(es, p) \in Seq(S)
              /\ Kept(lines, es, p) \in Seq(S)
         /\ \A p \in 0..(Len(lines) + 1) : rest[p] \in Seq(S)
<1> DEFINE n == Len(lines)
           G == {p \in 0..(n + 1) : rest[p] \in Seq(S)}
<1>0. n \in Nat
  OBVIOUS
<1>1. \A p \in 0..(n + 1) :
        rest[p] = IF p = n + 1 THEN <<>>
                  ELSE Inserted(es, p) \o Kept(lines, es, p) \o rest[p + 1]
  BY Zenon DEF Rests
<1>2. \A p \in 0..n : p \in 0..(n + 1) /\ p # n + 1
  OBVIOUS
<1>3. \A p \in 0..n : rest[p] = Inserted(es, p) \o Kept(lines, es, p) \o rest[p + 1]
  BY <1>1, <1>2, Zenon
<1>4. n + 1 \in 0..(n + 1)
  OBVIOUS
<1>5. rest[n + 1] = <<>>
  BY <1>1, <1>4, Zenon
<1>6. \A p \in 0..n : Inserted(es, p) \in Seq(S)
  <2> TAKE p \in 0..n
  <2>1. CASE \E e \in es : e.from = p
    <3>1. EditAt(es, p) \in es
      BY <2>1 DEF EditAt
    <3>2. EditAt(es, p).segment \in Seq(S)
      BY <3>1 DEF EditsOver
    <3> QED
      BY <2>1, <3>2 DEF Inserted
  <2>2. CASE ~ \E e \in es : e.from = p
    BY <2>2 DEF Inserted
  <2> QED
    BY <2>1, <2>2
<1>7. \A p \in 0..n : Kept(lines, es, p) \in Seq(S)
  BY DEF Kept
<1>8. n + 1 \in G
  <2>1. <<>> \in Seq(S)
    OBVIOUS
  <2> QED
    BY <1>4, <1>5, <2>1, Zenon
<1>9. ASSUME NEW p \in 0..n, p + 1 \in G PROVE p \in G
  <2>1. PICK s \in Seq(S), t \in Seq(S), u \in Seq(S) :
          s = Inserted(es, p) /\ t = Kept(lines, es, p) /\ u = rest[p + 1]
    BY <1>6, <1>7, <1>9
  <2>2. (s \o t) \o u \in Seq(S)
    OBVIOUS
  <2>3. rest[p] = (s \o t) \o u
    BY <1>3, <2>1, Zenon
  <2> QED
    BY <1>2, <2>2, <2>3
<1>10. 0..(n + 1) \subseteq G
  <2> HIDE DEF G
  <2> QED
    BY <1>0, <1>4, <1>8, <1>9, Downward
<1> QED
  BY <1>3, <1>5, <1>6, <1>7, <1>10

\* What is behind a prefix.
LEMMA DropHead ==
  ASSUME NEW S, NEW s \in Seq(S), NEW t \in Seq(S)
  PROVE  SubSeq(s \o t, Len(s) + 1, Len(s \o t)) = t
<1>1. PICK c \in Seq(S) : c = s \o t
  BY ConcatProperties
<1>2. /\ Len(c) = Len(s) + Len(t)
      /\ \A i \in 1..Len(t) : c[Len(s) + i] = t[i]
  <2>1. /\ Len(s \o t) = Len(s) + Len(t)
        /\ \A i \in 1..(Len(s) + Len(t)) :
             (s \o t)[i] = IF i <= Len(s) THEN s[i] ELSE t[i - Len(s)]
    BY ConcatProperties
  <2>2. /\ Len(c) = Len(s) + Len(t)
        /\ \A i \in 1..(Len(s) + Len(t)) :
             c[i] = IF i <= Len(s) THEN s[i] ELSE t[i - Len(s)]
    BY <1>1, <2>1, Zenon
  <2>3. ASSUME NEW i \in 1..Len(t) PROVE c[Len(s) + i] = t[i]
    <3>1. Len(s) + i \in 1..(Len(s) + Len(t)) /\ ~ (Len(s) + i <= Len(s)) /\ (Len(s) + i) - Len(s) = i
      OBVIOUS
    <3> QED
      BY <2>2, <3>1
  <2> QED
    BY <2>2, <2>3
<1>3. Len(s) + 1 \in 1..(Len(c) + 1) /\ Len(c) \in 0..Len(c)
  BY <1>2
<1>4. PICK d \in Seq(S) : d = SubSeq(c, Len(s) + 1, Len(c))
  BY <1>3, Cut
<1>5. /\ Len(d) = IF Len(s) + 1 <= Len(c) THEN Len(c) - (Len(s) + 1) + 1 ELSE 0
      /\ \A i \in 1..(Len(c) - (Len(s) + 1) + 1) : d[i] = c[(Len(s) + 1) + i - 1]
  BY <1>3, <1>4, Cut
<1>6. Len(d) = Len(t)
  BY <1>2, <1>5
<1>7. ASSUME NEW i \in 1..Len(t) PROVE d[i] = t[i]
  <2>1. i \in 1..(Len(c) - (Len(s) + 1) + 1) /\ (Len(s) + 1) + i - 1 = Len(s) + i
    BY <1>2
  <2> QED
    BY <1>2, <1>5, <2>1
<1>8. d = t
  BY <1>6, <1>7, SeqEqual
<1> QED
  BY <1>1, <1>4, <1>8, Zenon

Regrouped(s, t, u, v) == (s \o t) \o u = s \o v

LEMMA ConcatRight ==
  ASSUME NEW S, NEW s \in Seq(S), NEW t \in Seq(S), NEW u \in Seq(S),
         NEW v \in Seq(S), v = t \o u
  PROVE  Regrouped(s, t, u, v)
BY ConcatAssociative DEF Regrouped

\* A splice into the first k lines, in front of rest.
CutBefore(lines, rest, t, p, j, k) ==
  Spliced(SubSeq(lines, 1, k) \o rest, p, j, t)
    = SubSeq(lines, 1, p) \o (t \o SubSeq(lines, j + 1, k) \o rest)

\* Where such a splice puts what it leaves.
LEMMA CutUnion ==
  ASSUME NEW S, NEW lines \in Seq(S), NEW rest \in Seq(S), NEW t \in Seq(S),
         NEW p \in Nat, NEW j \in Nat, NEW k \in Nat, p <= j, j <= k, k <= Len(lines)
  PROVE  CutBefore(lines, rest, t, p, j, k)
<1>1. PICK front \in Seq(S) : /\ front = SubSeq(lines, 1, k)
                              /\ Len(front) = k
                              /\ \A i \in 1..k : front[i] = lines[i]
  <2>1. k \in 0..Len(lines)
    OBVIOUS
  <2>2. PICK front \in Seq(S) : front = SubSeq(lines, 1, k)
    BY <2>1, Prefix
  <2>3. Len(front) = k /\ \A i \in 1..k : front[i] = lines[i]
    BY <2>1, <2>2, Prefix
  <2> QED
    BY <2>2, <2>3, Zenon
<1>2. PICK head \in Seq(S) : head = SubSeq(lines, 1, j) /\ Len(head) = j
  <2>1. j \in 0..Len(lines)
    OBVIOUS
  <2> QED
    BY <2>1, Prefix
<1>3. PICK mid \in Seq(S) : mid = SubSeq(lines, j + 1, k)
  <2>1. j + 1 \in 1..(Len(lines) + 1) /\ k \in 0..Len(lines)
    OBVIOUS
  <2>2. SubSeq(lines, j + 1, k) \in Seq(S)
    BY <2>1, Cut
  <2> QED
    BY <2>2
<1>4. PICK first \in Seq(S) : first = SubSeq(lines, 1, p)
  <2>1. p \in 0..Len(lines)
    OBVIOUS
  <2> QED
    BY <2>1, Prefix
<1>5. PICK m \in Seq(S) : m = front \o rest
  BY ConcatProperties
<1>6. PICK tail \in Seq(S) : tail = mid \o rest
  BY ConcatProperties
<1>7. front = head \o mid
  <2>1. SubSeq(lines, 1, k) = SubSeq(lines, 1, j) \o SubSeq(lines, j + 1, k)
    <3>1. j \in 0..Len(lines) /\ k \in j..Len(lines)
      OBVIOUS
    <3> QED
      BY <3>1, HeadAndRest
  <2> QED
    BY <1>1, <1>2, <1>3, <2>1, Zenon
<1>8. m = head \o tail
  <2>1. (head \o mid) \o rest = head \o tail
    <3>1. Regrouped(head, mid, rest, tail)
      BY <1>6, ConcatRight, Zenon
    <3> QED
      BY <3>1, Zenon DEF Regrouped
  <2> QED
    BY <1>5, <1>7, <2>1, Zenon
<1>9. SubSeq(m, j + 1, Len(m)) = tail
  <2>1. SubSeq(head \o tail, Len(head) + 1, Len(head \o tail)) = tail
    BY DropHead
  <2> QED
    BY <1>2, <1>8, <2>1, Zenon
<1>10. SubSeq(m, 1, p) = first
  <2>1. /\ Len(front \o rest) = Len(front) + Len(rest)
        /\ \A i \in 1..(Len(front) + Len(rest)) :
             (front \o rest)[i] = IF i <= Len(front) THEN front[i] ELSE rest[i - Len(front)]
    BY ConcatProperties
  <2>2. /\ Len(m) = Len(front) + Len(rest)
        /\ \A i \in 1..(Len(front) + Len(rest)) :
             m[i] = IF i <= Len(front) THEN front[i] ELSE rest[i - Len(front)]
    BY <1>5, <2>1, Zenon
  <2>3. p <= Len(m) /\ p <= Len(lines)
    BY <1>1, <2>2
  <2>4. \A i \in 1..p : m[i] = lines[i]
    <3> TAKE i \in 1..p
    <3>1. i \in 1..k /\ i \in 1..(Len(front) + Len(rest)) /\ i <= Len(front)
      BY <1>1
    <3> QED
      BY <1>1, <2>2, <3>1
  <2>5. Agree(m, lines, p)
    BY <2>3, <2>4 DEF Agree
  <2>6. SubSeq(m, 1, p) = SubSeq(lines, 1, p)
    BY <2>5, SamePrefix
  <2> QED
    BY <1>4, <2>6
<1>11. Spliced(m, p, j, t) = (first \o t) \o tail
  BY <1>9, <1>10, Zenon DEF Spliced
<1>12. PICK new \in Seq(S) : new = t \o tail
  BY ConcatProperties
<1>13. (first \o t) \o tail = first \o new
  <2>1. Regrouped(first, t, tail, new)
    BY <1>12, ConcatRight, Zenon
  <2> QED
    BY <2>1, Zenon DEF Regrouped
<1>14. new = (t \o mid) \o rest
  <2>1. Regrouped(t, mid, rest, tail)
    BY <1>6, ConcatRight, Zenon
  <2> QED
    BY <1>12, <2>1, Zenon DEF Regrouped
<1> QED
  BY <1>1, <1>3, <1>4, <1>5, <1>11, <1>13, <1>14, Zenon DEF CutBefore

\* What is spliced from line p on is in front of lines k..: those up to p, or up
\* to the end of an edit that starts before p and ends behind it.
Reaches(n, es, p, k) ==
  \/ p = n + 1 /\ k = n
  \/ p <= n /\ k = p /\ \A e \in es : ~ (e.from < p /\ p < e.to)
  \/ \E e \in es : e.from < p /\ p < e.to /\ k = e.to

\* The edit at line p, and what the step from p + 1 to p has to do.
LEMMA ReachEdit ==
  ASSUME NEW n \in Nat, NEW S, NEW es, EditsOver(n, S, es), NEW p \in 0..n,
         \A e \in es : ~ (e.from < p /\ p < e.to),
         NEW e \in es, e.from = p
  PROVE  \E k \in e.to..n :
           /\ Reaches(n, es, p + 1, k)
           /\ \/ e.to = p /\ k = p + 1 /\ p < n
              \/ e.to = p /\ k = p /\ p = n
              \/ e.to > p /\ k = e.to
<1>1. e.to \in p..n
  BY DEF EditsOver
<1>2. \A f \in es : f.from \in 0..n /\ f.to \in f.from..n
  BY DEF EditsOver
<1>3. \A f \in es : f = e \/ Before(e, f) \/ Before(f, e)
  BY DEF EditsOver
<1>4. CASE e.to = p /\ p = n
  <2>1. Reaches(n, es, p + 1, p)
    BY <1>4 DEF Reaches
  <2> QED
    BY <1>1, <1>4, <2>1
<1>5. CASE e.to = p /\ p < n
  <2>1. \A f \in es : ~ (f.from < p + 1 /\ p + 1 < f.to)
    BY <1>2, <1>3, <1>5 DEF Before
  <2>2. Reaches(n, es, p + 1, p + 1)
    BY <1>5, <2>1 DEF Reaches
  <2> QED
    BY <1>1, <1>5, <2>2
<1>6. CASE e.to = p + 1
  <2>1. \A f \in es : ~ (f.from < p + 1 /\ p + 1 < f.to)
    BY <1>2, <1>3, <1>6 DEF Before
  <2>2. Reaches(n, es, p + 1, p + 1)
    BY <1>1, <1>6, <2>1 DEF Reaches
  <2> QED
    BY <1>1, <1>6, <2>2
<1>7. CASE e.to > p + 1
  <2>1. e.from < p + 1 /\ p + 1 < e.to
    BY <1>1, <1>7
  <2>2. Reaches(n, es, p + 1, e.to)
    BY <2>1 DEF Reaches
  <2> QED
    BY <1>1, <1>7, <2>2
<1> QED
  BY <1>1, <1>4, <1>5, <1>6, <1>7

\* The same at a line where no edit starts.
LEMMA ReachLine ==
  ASSUME NEW n \in Nat, NEW S, NEW es, EditsOver(n, S, es), NEW p \in 0..n,
         \A e \in es : ~ (e.from < p /\ p < e.to),
         \A e \in es : e.from # p
  PROVE  /\ p < n => Reaches(n, es, p + 1, p + 1)
         /\ p = n => Reaches(n, es, p + 1, p)
         /\ \A e \in es : ~ (e.from <= p /\ p < e.to)
<1>1. \A f \in es : f.from \in 0..n /\ f.to \in f.from..n
  BY DEF EditsOver
<1>2. \A f \in es : ~ (f.from < p + 1 /\ p + 1 < f.to)
  BY <1>1
<1> QED
  BY <1>1, <1>2 DEF Reaches

\* Within an edit nothing happens.
LEMMA ReachWithin ==
  ASSUME NEW n \in Nat, NEW S, NEW es, EditsOver(n, S, es), NEW p \in 0..n,
         NEW e \in es, e.from < p, p < e.to
  PROVE  /\ Reaches(n, es, p + 1, e.to)
         /\ \A f \in es : f.from # p
<1>1. \A f \in es : f.from \in 0..n /\ f.to \in f.from..n
  BY DEF EditsOver
<1>2. \A f \in es : f = e \/ Before(e, f) \/ Before(f, e)
  BY DEF EditsOver
<1>3. \A f \in es : f.from # p
  BY <1>1, <1>2 DEF Before
<1>4. CASE p + 1 < e.to
  <2>1. e.from < p + 1
    BY <1>1
  <2> QED
    BY <1>3, <1>4, <2>1 DEF Reaches
<1>5. CASE e.to = p + 1
  <2>1. \A f \in es : ~ (f.from < p + 1 /\ p + 1 < f.to)
    BY <1>1, <1>2, <1>5 DEF Before
  <2>2. p + 1 <= n
    BY <1>1, <1>5
  <2> QED
    BY <1>3, <1>5, <2>1, <2>2 DEF Reaches
<1>6. e.to \in Int
  BY <1>1
<1> QED
  BY <1>4, <1>5, <1>6

Meets(lines, after, rest, p, k) == after[p] = SubSeq(lines, 1, k) \o rest[p]

LEMMA EmptyInFront ==
  ASSUME NEW S, NEW s \in Seq(S)
  PROVE  <<>> \o s = s /\ s \o <<>> = s
OBVIOUS

\* A list of one line.
LEMMA OneLine ==
  ASSUME NEW S, NEW s \in Seq(S), NEW i \in 1..Len(s)
  PROVE  <<s[i]>> \in Seq(S) /\ SubSeq(s, i, i) = <<s[i]>>
<1>1. s[i] \in S
  BY ElementOfSeq
<1>2. PICK c \in Seq(S) : c = <<s[i]>>
  <2>1. \A v \in S : <<v>> \in Seq(S)
    OBVIOUS
  <2> QED
    BY <1>1, <2>1, Zenon
<1>3. i \in 1..(Len(s) + 1) /\ i \in 0..Len(s)
  OBVIOUS
<1>4. PICK d \in Seq(S) : d = SubSeq(s, i, i)
  BY <1>3, Cut
<1>5. /\ Len(d) = IF i <= i THEN i - i + 1 ELSE 0
      /\ \A k \in 1..(i - i + 1) : d[k] = s[i + k - 1]
  BY <1>3, <1>4, Cut
<1>6. Len(d) = 1 /\ d[1] = s[i]
  <2>1. i - i + 1 = 1 /\ i + 1 - 1 = i /\ i <= i
    OBVIOUS
  <2> QED
    BY <1>5, <2>1
<1>7. Len(c) = 1 /\ c[1] = s[i]
  BY <1>2
<1>8. \A k \in 1..Len(c) : c[k] = d[k]
  BY <1>6, <1>7
<1>9. c = d
  BY <1>6, <1>7, <1>8, SeqEqual
<1> QED
  BY <1>2, <1>4, <1>9, Zenon

\* The step over a line nobody edits.
LEMMA StepLine ==
  ASSUME NEW S, NEW lines \in Seq(S), NEW rest \in Seq(S), NEW p \in Nat, p < Len(lines)
  PROVE  SubSeq(lines, 1, p + 1) \o rest
           = SubSeq(lines, 1, p) \o (<<>> \o <<lines[p + 1]>> \o rest)
<1>1. PICK head \in Seq(S) : head = SubSeq(lines, 1, p)
  <2>1. p \in 0..Len(lines)
    OBVIOUS
  <2> QED
    BY <2>1, Prefix
<1>2. PICK line \in Seq(S) : line = <<lines[p + 1]>>
  <2>1. p + 1 \in 1..Len(lines)
    OBVIOUS
  <2>2. <<lines[p + 1]>> \in Seq(S)
    BY <2>1, OneLine
  <2> QED
    BY <2>2
<1>3. SubSeq(lines, 1, p + 1) = head \o line
  <2>1. SubSeq(lines, 1, p + 1) = SubSeq(lines, 1, p) \o SubSeq(lines, p + 1, p + 1)
    <3>1. p \in 0..Len(lines) /\ p + 1 \in p..Len(lines)
      OBVIOUS
    <3> QED
      BY <3>1, HeadAndRest
  <2>2. SubSeq(lines, p + 1, p + 1) = <<lines[p + 1]>>
    <3>1. p + 1 \in 1..Len(lines)
      OBVIOUS
    <3> QED
      BY <3>1, OneLine
  <2> QED
    BY <1>1, <1>2, <2>1, <2>2, Zenon
<1>4. PICK new \in Seq(S) : new = line \o rest
  BY ConcatProperties
<1>5. Regrouped(head, line, rest, new)
  BY <1>4, ConcatRight, Zenon
<1>6. <<>> \o line = line
  BY EmptyInFront
<1> QED
  BY <1>1, <1>2, <1>3, <1>4, <1>5, <1>6, Zenon DEF Regrouped

\* Splicing edits of which no two meet from the back is their union, position
\* by position.
LEMMA SpliceIsMergedLines ==
  ASSUME NEW S, NEW lines \in Seq(S), NEW es, EditsOver(Len(lines), S, es)
  PROVE  Splice(lines, es) = MergedLines(lines, es)
<1> DEFINE n == Len(lines)
<1>0. n \in Nat
  OBVIOUS
<1>1. PICK after : Afters(lines, es, after) /\ Splice(lines, es) = after[0]
  BY <1>0, SpliceIsRecursive
<1>2. PICK rest : Rests(lines, es, rest) /\ MergedLines(lines, es) = rest[0]
  BY <1>0, MergedLinesIsRecursive
<1>3. /\ after[n + 1] = lines
      /\ \A p \in 0..n : (\A e \in es : e.from # p) => after[p] = after[p + 1]
      /\ \A e \in es : after[e.from] = Replaced(after[e.from + 1], e)
  BY <1>0, <1>1, SpliceSteps
<1>4. /\ rest[n + 1] = <<>>
      /\ \A p \in 0..n :
           /\ rest[p] = Inserted(es, p) \o Kept(lines, es, p) \o rest[p + 1]
           /\ Inserted(es, p) \in Seq(S)
           /\ Kept(lines, es, p) \in Seq(S)
      /\ \A p \in 0..(n + 1) : rest[p] \in Seq(S)
  BY <1>2, RestSteps
<1>5. \A e \in es : e.from \in 0..n /\ e.to \in e.from..n /\ e.segment \in Seq(S)
  BY DEF EditsOver
<1>6. \A e, f \in es : e = f \/ Before(e, f) \/ Before(f, e)
  BY DEF EditsOver
<1> DEFINE G == {p \in 0..(n + 1) :
                   \A k \in 0..n : Reaches(n, es, p, k) => Meets(lines, after, rest, p, k)}
<1>7. n + 1 \in G
  <2>1. ASSUME NEW k \in 0..n, Reaches(n, es, n + 1, k)
        PROVE  Meets(lines, after, rest, n + 1, k)
    <3>1. k = n
      BY <1>5, <2>1 DEF Reaches
    <3>2. SubSeq(lines, 1, n) = lines
      BY SubSeqFull
    <3>3. lines \o <<>> = lines
      BY EmptyInFront
    <3> QED
      BY <1>3, <1>4, <3>1, <3>2, <3>3, Zenon DEF Meets
  <2>2. n + 1 \in 0..(n + 1)
    OBVIOUS
  <2> QED
    BY <2>1, <2>2
<1>8. ASSUME NEW p \in 0..n, p + 1 \in G PROVE p \in G
  <2>0. p \in 0..(n + 1) /\ p + 1 \in 0..(n + 1) /\ p \in Nat
    OBVIOUS
  <2>1. \A k \in 0..n : Reaches(n, es, p + 1, k) => Meets(lines, after, rest, p + 1, k)
    BY <1>8
  <2> SUFFICES ASSUME NEW k \in 0..n, Reaches(n, es, p, k)
               PROVE  Meets(lines, after, rest, p, k)
    BY <2>0
  <2>2. PICK r \in Seq(S) : r = rest[p + 1]
    BY <1>4, <2>0
  <2>3. rest[p] = Inserted(es, p) \o Kept(lines, es, p) \o r
    BY <1>4, <2>2
  <2>4. <<>> \o <<>> = <<>> /\ <<>> \o r = r
    BY EmptyInFront
  <2>5. ASSUME NEW e \in es, e.from < p, p < e.to, k = e.to
        PROVE  Meets(lines, after, rest, p, k)
    <3>1. Reaches(n, es, p + 1, e.to) /\ \A f \in es : f.from # p
      BY <1>0, <2>5, ReachWithin
    <3>2. Meets(lines, after, rest, p + 1, k)
      BY <2>1, <2>5, <3>1
    <3>3. after[p] = after[p + 1]
      BY <1>3, <3>1
    <3>4. Inserted(es, p) = <<>>
      BY <3>1, Zenon DEF Inserted
    <3>5. e.from <= p
      BY <1>5, <2>5
    <3>6. Kept(lines, es, p) = <<>>
      BY <2>5, <3>5, Zenon DEF Kept
    <3> QED
      BY <2>2, <2>3, <2>4, <3>2, <3>3, <3>4, <3>6, Zenon DEF Meets
  <2>6. ASSUME k = p, \A e \in es : ~ (e.from < p /\ p < e.to), \A e \in es : e.from # p
        PROVE  Meets(lines, after, rest, p, k)
    <3>1. /\ p < n => Reaches(n, es, p + 1, p + 1)
          /\ p = n => Reaches(n, es, p + 1, p)
          /\ \A e \in es : ~ (e.from <= p /\ p < e.to)
      BY <1>0, <2>6, ReachLine
    <3>2. after[p] = after[p + 1]
      BY <1>3, <2>6
    <3>3. Inserted(es, p) = <<>>
      BY <2>6, Zenon DEF Inserted
    <3>4. CASE p < n
      <4>1. p + 1 \in 0..n
        BY <3>4
      <4>2. Meets(lines, after, rest, p + 1, p + 1)
        BY <2>1, <3>1, <3>4, <4>1
      <4>3. Kept(lines, es, p) = <<lines[p + 1]>>
        BY <3>1, <3>4, Zenon DEF Kept
      <4>4. SubSeq(lines, 1, p + 1) \o r
              = SubSeq(lines, 1, p) \o (<<>> \o <<lines[p + 1]>> \o r)
        BY <2>0, <3>4, StepLine
      <4> QED
        BY <2>2, <2>3, <2>6, <3>2, <3>3, <4>2, <4>3, <4>4, Zenon DEF Meets
    <3>5. CASE p = n
      <4>1. Meets(lines, after, rest, p + 1, p)
        BY <2>1, <3>1, <3>5
      <4>2. ~ (p < n)
        BY <3>5
      <4>3. Kept(lines, es, p) = <<>>
        BY <4>2, Zenon DEF Kept
      <4> QED
        BY <2>2, <2>3, <2>4, <2>6, <3>2, <3>3, <4>1, <4>3, Zenon DEF Meets
    <3> QED
      BY <3>4, <3>5
  <2>7. ASSUME NEW e \in es, e.from = p, k = p, \A f \in es : ~ (f.from < p /\ p < f.to)
        PROVE  Meets(lines, after, rest, p, k)
    <3>1. PICK i \in e.to..n :
            /\ Reaches(n, es, p + 1, i)
            /\ \/ e.to = p /\ i = p + 1 /\ p < n
               \/ e.to = p /\ i = p /\ p = n
               \/ e.to > p /\ i = e.to
      BY <1>0, <2>7, ReachEdit
    <3>2. PICK j \in p..n : j = e.to
      BY <1>5, <2>7
    <3>3. PICK t \in Seq(S) : t = e.segment
      BY <1>5
    <3>4. i \in 0..n /\ i \in Nat /\ j \in Nat /\ p <= j /\ j <= i /\ i <= n
      BY <3>1, <3>2
    <3>5. after[p + 1] = SubSeq(lines, 1, i) \o r
      <4>1. Meets(lines, after, rest, p + 1, i)
        BY <2>1, <3>1, <3>4
      <4> QED
        BY <2>2, <4>1, Zenon DEF Meets
    <3>6. after[p] = Spliced(SubSeq(lines, 1, i) \o r, p, j, t)
      <4>1. after[p] = Replaced(after[p + 1], e)
        BY <1>3, <2>7
      <4>2. Replaced(after[p + 1], e) = Spliced(after[p + 1], p, j, t)
        BY <2>7, <3>2, <3>3, Zenon DEF Replaced, Spliced
      <4> QED
        BY <3>5, <4>1, <4>2, Zenon
    <3>7. CutBefore(lines, r, t, p, j, i)
      BY <2>0, <3>4, CutUnion
    <3>8. Inserted(es, p) = t
      <4>1. EditAt(es, p) = e
        BY <1>5, <1>6, <2>7 DEF EditAt, Before
      <4> QED
        BY <2>7, <3>3, <4>1, Zenon DEF Inserted
    <3>9. Kept(lines, es, p) = SubSeq(lines, j + 1, i)
      <4>1. CASE e.to = p /\ i = p + 1 /\ p < n
        <5>1. \A f \in es : ~ (f.from <= p /\ p < f.to)
          BY <1>5, <1>6, <2>7, <4>1 DEF Before
        <5>2. Kept(lines, es, p) = <<lines[p + 1]>>
          BY <4>1, <5>1, Zenon DEF Kept
        <5>3. SubSeq(lines, p + 1, p + 1) = <<lines[p + 1]>>
          <6>1. p + 1 \in 1..n
            BY <1>0, <4>1
          <6> QED
            BY <6>1, OneLine
        <5> QED
          BY <3>2, <4>1, <5>2, <5>3, Zenon
      <4>2. CASE e.to = p /\ i = p /\ p = n
        <5>1. ~ (p < n)
          BY <4>2
        <5>2. Kept(lines, es, p) = <<>>
          BY <5>1, Zenon DEF Kept
        <5>3. SubSeq(lines, j + 1, i) = <<>>
          BY <3>2, <4>2
        <5> QED
          BY <5>2, <5>3
      <4>3. CASE e.to > p /\ i = e.to
        <5>1. e.from <= p /\ p < e.to
          BY <2>7, <3>2, <4>3
        <5>2. Kept(lines, es, p) = <<>>
          BY <5>1, Zenon DEF Kept
        <5>3. i = j
          BY <3>2, <4>3
        <5>4. SubSeq(lines, j + 1, j) = <<>>
          BY <3>4
        <5> QED
          BY <5>2, <5>3, <5>4, Zenon
      <4> QED
        BY <3>1, <4>1, <4>2, <4>3, Zenon
    <3> QED
      BY <2>3, <2>7, <3>6, <3>7, <3>8, <3>9, Zenon DEF Meets, CutBefore
  <2>8. p # n + 1
    OBVIOUS
  <2> QED
    BY <2>5, <2>6, <2>7, <2>8 DEF Reaches
<1>9. 0 \in G
  <2> HIDE DEF G
  <2>1. n + 1 \in Nat /\ \A p \in 0..((n + 1) - 1) : p + 1 \in G => p \in G
    BY <1>0, <1>8
  <2>2. 0..(n + 1) \subseteq G
    BY <1>7, <2>1, Downward
  <2> QED
    BY <1>0, <2>2
<1>10. Meets(lines, after, rest, 0, 0)
  <2>1. Reaches(n, es, 0, 0)
    BY <1>0, <1>5 DEF Reaches
  <2>2. 0 \in 0..n
    BY <1>0
  <2> QED
    BY <1>9, <2>1, <2>2
<1>11. SubSeq(lines, 1, 0) = <<>>
  OBVIOUS
<1>12. PICK r \in Seq(S) : r = rest[0]
  BY <1>0, <1>4
<1>13. <<>> \o r = r
  BY EmptyInFront
<1> QED
  BY <1>1, <1>2, <1>10, <1>11, <1>12, <1>13, Zenon DEF Meets

United(m, x, y, z) ==
  m = Join(MergedLines(x.lines, Edits(x.lines, y.lines) \union Edits(x.lines, z.lines)),
           y.nl \/ z.nl)

\* A merge is the union of both sides' edits.
LEMMA MergeUnites ==
  ASSUME NEW S, NEW x \in Texts(S), NEW y \in Texts(S), NEW z \in Texts(S), CanMerge(x, y, z)
  PROVE  United(Merge(x, y, z), x, y, z)
<1>1. PICK xs \in Seq(S) : xs = x.lines
  BY TextsElim
<1>2. PICK ys \in Seq(S) : ys = y.lines
  BY TextsElim
<1>3. PICK zs \in Seq(S) : zs = z.lines
  BY TextsElim
<1>4. PICK es, fs : es = Edits(xs, ys) /\ fs = Edits(xs, zs)
  OBVIOUS
<1>5. EditsOver(Len(xs), S, es) /\ EditsOver(Len(xs), S, fs)
  BY <1>4, EditsDoNotMeet
<1>6. ~ Conflicting(es, fs)
  BY <1>1, <1>2, <1>3, <1>4, Zenon DEF CanMerge
<1>7. EditsOver(Len(xs), S, es \union fs)
  <2>1. Len(xs) \in Nat
    OBVIOUS
  <2> QED
    BY <1>5, <1>6, <2>1, NoConflictNoMeeting
<1>8. Splice(xs, es \union fs) = MergedLines(xs, es \union fs)
  BY <1>7, SpliceIsMergedLines
<1> QED
  BY <1>1, <1>2, <1>3, <1>4, <1>8, Zenon DEF Merge, United

\* A merged text ends in a newline when it is asked to.
LEMMA JoinEnds ==
  ASSUME NEW s
  PROVE  Join(s, TRUE).nl = TRUE
BY DEF Join, Text

------------------------------------------------------------------------------
(* The merge of every two edits of a common text. *)

MergeInv ==
  /\ base \in Texts(AllLines)
  /\ theirs \in Texts(AllLines)
  /\ ours \in Texts(AllLines)
  /\ merged # NoText => CanMerge(base, theirs, ours) /\ merged = Merge(base, theirs, ours)

\* The texts stay texts, and a result is the merge of the three.
LEMMA MergeInvariant == MergeSpec => []MergeInv
<1>1. MergeInit => MergeInv
  BY CasesAssumption DEF MergeInit, MergeInv
<1>2. MergeInv /\ [MergeNext]_mergeVars => MergeInv'
  <2> SUFFICES ASSUME MergeInv, [MergeNext]_mergeVars PROVE MergeInv'
    OBVIOUS
  <2> USE DEF MergeInv
  <2>1. CASE EditTheirs
    BY <2>1, CasesAssumption DEF EditTheirs
  <2>2. CASE MergeThem
    BY <2>2 DEF MergeThem
  <2>3. CASE UNCHANGED mergeVars
    BY <2>3 DEF mergeVars
  <2> QED
    BY <2>1, <2>2, <2>3 DEF MergeNext
<1> QED
  BY <1>1, <1>2, PTL DEF MergeSpec

\* Whatever the common text and the two edited ones: each line that is not blank
\* occurs in three_way_merge's result as often as the two sides' changes to its
\* number of occurrences say, so no edit is lost or applied twice.
THEOREM MergeLosesNothing == MergeSpec => []LinesAccounted
<1>1. MergeInv => LinesAccounted
  <2> SUFFICES ASSUME MergeInv, merged # NoText, NEW x, x # Blank
               PROVE  Count(merged.lines, x) + Count(base.lines, x)
                        = Count(theirs.lines, x) + Count(ours.lines, x)
    BY DEF LinesAccounted
  <2>1. Blank \in AllLines
    BY DEF AllLines
  <2>2. CanMerge(base, theirs, ours) /\ merged = Merge(base, theirs, ours)
    BY DEF MergeInv
  <2>3. Accounted(Merge(base, theirs, ours), base, theirs, ours)
    BY <2>1, <2>2, MergeAccounts DEF MergeInv
  <2> QED
    BY <2>2, <2>3, Zenon DEF Accounted
<1> QED
  BY <1>1, MergeInvariant, PTL

\* three_way_merge splices the edits of both sides into the base from the back;
\* what comes out is the union of the edits, position by position, and ends in
\* a newline if either side does.
THEOREM MergeIsTheUnion == MergeSpec => []MergeIsUnion
<1>1. MergeInv => MergeIsUnion
  <2> SUFFICES ASSUME MergeInv, merged # NoText
               PROVE  /\ merged = Join(MergedLines(base.lines, Edits(base.lines, theirs.lines)
                                                   \union Edits(base.lines, ours.lines)),
                                       theirs.nl \/ ours.nl)
                      /\ theirs.nl \/ ours.nl => merged.nl
    BY Zenon DEF MergeIsUnion
  <2>1. CanMerge(base, theirs, ours) /\ merged = Merge(base, theirs, ours)
    BY DEF MergeInv
  <2>2. merged = Join(MergedLines(base.lines, Edits(base.lines, theirs.lines)
                                                \union Edits(base.lines, ours.lines)),
                      theirs.nl \/ ours.nl)
    <3>1. base \in Texts(AllLines) /\ theirs \in Texts(AllLines) /\ ours \in Texts(AllLines)
      BY DEF MergeInv
    <3> QED
      <4>1. United(Merge(base, theirs, ours), base, theirs, ours)
        BY <2>1, <3>1, MergeUnites
      <4> QED
        BY <2>1, <4>1, Zenon DEF United
  <2>3. ASSUME theirs.nl \/ ours.nl PROVE merged.nl
    <3>1. PICK s : s = MergedLines(base.lines, Edits(base.lines, theirs.lines)
                                                 \union Edits(base.lines, ours.lines))
      OBVIOUS
    <3>2. (theirs.nl \/ ours.nl) = TRUE
      BY <2>3
    <3>3. merged = Join(s, TRUE)
      BY <2>2, <3>1, <3>2, Zenon
    <3> QED
      BY <3>3, JoinEnds
  <2> QED
    BY <2>2, <2>3
<1> QED
  BY <1>1, MergeInvariant, PTL

------------------------------------------------------------------------------
(* The store. *)

StoreInv ==
  /\ TypeOK
  /\ version = 0 => content = EmptyText
  /\ version > 0 => history[version] = content
  /\ \A c \in Clients : held[c] # None => held[c] <= version
  /\ NoLostEdit

LEMMA EmptyIsText ==
  ASSUME NEW S
  PROVE  EmptyText \in Texts(S) /\ EmptyText.lines = <<>>
<1>1. <<>> \in Seq(S)
  OBVIOUS
<1>2. Text(<<>>, FALSE) \in Texts(S) /\ Text(<<>>, FALSE).lines = <<>>
  BY <1>1, TextsIntro
<1> QED
  BY <1>2, Zenon DEF EmptyText

AllTexts == Texts(Lines \union {Blank})

LEMMA CountOfText ==
  ASSUME NEW t \in AllTexts, NEW x
  PROVE  Count(t.lines, x) \in Nat
<1>1. t.lines \in Seq(Lines \union {Blank})
  BY TextsElim DEF AllTexts
<1> QED
  BY <1>1, CountType

\* The base of a commit is a text, also where the history has no such version.
LEMMA BaseIsText ==
  ASSUME TypeOK, NEW v
  PROVE  BaseOf(v) \in AllTexts
<1>1. CASE v \in 1..version
  BY <1>1 DEF BaseOf, TypeOK, AllTexts
<1>2. CASE v \notin 1..version
  BY <1>2, EmptyIsText DEF BaseOf, AllTexts
<1> QED
  BY <1>1, <1>2

\* A new version and what the commit contributed to it.
LEMMA StoreStep ==
  ASSUME StoreInv, NEW c \in Clients, held[c] # None, NEW draft \in Drafts,
         NEW new \in AllTexts, Store(new), Record(c, draft),
         held' = [held EXCEPT ![c] = None], UNCHANGED refused,
         \A x \in Lines : Count(new.lines, x) + Count(BaseOf(held[c]).lines, x)
                            = Count(content.lines, x) + Count(draft.lines, x)
  PROVE  StoreInv'
<1>1. /\ version \in 0..MaxVersion /\ content \in AllTexts
      /\ history \in [1..version -> AllTexts]
      /\ held \in [Clients -> 0..MaxVersion \union {None}]
      /\ refused \subseteq Clients /\ net \in [Lines -> Int]
  BY DEF StoreInv, TypeOK, AllTexts
<1>2. /\ version < MaxVersion /\ version' = version + 1 /\ content' = new
      /\ history' = [v \in 1..(version + 1) |-> IF v = version + 1 THEN new ELSE history[v]]
  BY DEF Store
<1>3. version' \in 0..MaxVersion /\ version' > 0
  BY <1>1, <1>2, BoundAssumption
<1>4. history' \in [1..version' -> AllTexts]
  BY <1>1, <1>2
<1>5. history'[version'] = content'
  BY <1>1, <1>2
<1>6. held' \in [Clients -> 0..MaxVersion \union {None}]
  BY <1>1
<1>7. \A d \in Clients : held'[d] # None => held'[d] <= version'
  <2> TAKE d \in Clients
  <2>1. held[d] # None => held[d] <= version /\ held[d] \in 0..MaxVersion
    BY <1>1 DEF StoreInv
  <2>2. held'[d] = IF d = c THEN None ELSE held[d]
    BY <1>1
  <2> QED
    BY <1>1, <1>2, <2>1, <2>2
<1>8. \A x \in Lines :
        /\ net'[x] = net[x] + Count(draft.lines, x) - Count(BaseOf(held[c]).lines, x)
        /\ net'[x] \in Int
        /\ net'[x] = Count(content'.lines, x)
  <2> TAKE x \in Lines
  <2>1. draft \in AllTexts /\ BaseOf(held[c]) \in AllTexts
    BY DraftsAssumption, BaseIsText DEF AllTexts, StoreInv
  <2>2. PICK d \in Nat, o \in Nat, m \in Nat, n \in Nat :
          /\ d = Count(draft.lines, x) /\ o = Count(BaseOf(held[c]).lines, x)
          /\ m = Count(content.lines, x) /\ n = Count(new.lines, x)
    BY <1>1, <2>1, CountOfText
  <2>3. net'[x] = net[x] + d - o
    BY <2>2, Zenon DEF Record
  <2>4. net[x] = m
    BY <2>2 DEF StoreInv, NoLostEdit
  <2>5. n + o = m + d
    BY <2>2
  <2>6. net'[x] = n
    BY <2>3, <2>4, <2>5
  <2> QED
    BY <1>2, <2>2, <2>3, <2>6
<1>9. net' \in [Lines -> Int]
  BY <1>8 DEF Record
<1>10. TypeOK'
  BY <1>1, <1>2, <1>3, <1>4, <1>6, <1>9, Zenon DEF TypeOK, AllTexts
<1>11. NoLostEdit'
  BY <1>8 DEF NoLostEdit
<1>12. ~ (version' = 0)
  BY <1>3
<1> QED
  BY <1>5, <1>7, <1>10, <1>11, <1>12 DEF StoreInv

\* The invariant holds of every state of the store.
LEMMA StoreInvariant == Spec => []StoreInv
<1>1. Init => StoreInv
  <2> SUFFICES ASSUME Init PROVE StoreInv
    OBVIOUS
  <2>1. content \in AllTexts
    BY EmptyIsText, DraftsAssumption DEF Init, AllTexts
  <2>2. version \in {0, 1}
    BY DEF Init
  <2>3. TypeOK
    <3>1. version \in 0..MaxVersion
      BY BoundAssumption DEF Init
    <3>2. history \in [1..version -> AllTexts]
      BY <2>1 DEF Init
    <3>3. held \in [Clients -> 0..MaxVersion \union {None}] /\ refused \subseteq Clients
      BY DEF Init
    <3>4. \A x \in Lines : Count(content.lines, x) \in Int
      BY <2>1, CountOfText
    <3>5. net \in [Lines -> Int]
      BY <3>4 DEF Init
    <3> QED
      BY <2>1, <3>1, <3>2, <3>3, <3>5 DEF TypeOK, AllTexts
  <2>4. NoLostEdit
    BY DEF Init, NoLostEdit
  <2> QED
    BY <2>2, <2>3, <2>4 DEF StoreInv, Init
<1>2. StoreInv /\ [Next]_vars => StoreInv'
  <2> SUFFICES ASSUME StoreInv, [Next]_vars PROVE StoreInv'
    OBVIOUS
  <2>0. /\ version \in 0..MaxVersion /\ content \in AllTexts
        /\ history \in [1..version -> AllTexts]
        /\ held \in [Clients -> 0..MaxVersion \union {None}]
        /\ refused \subseteq Clients /\ net \in [Lines -> Int]
    BY DEF StoreInv, TypeOK, AllTexts
  <2>1. ASSUME NEW c \in Clients, Checkout(c) PROVE StoreInv'
    <3>1. /\ held' = [held EXCEPT ![c] = version] /\ refused' = refused \ {c}
          /\ UNCHANGED <<version, content, history, net>>
      BY <2>1 DEF Checkout
    <3>2. held' \in [Clients -> 0..MaxVersion \union {None}] /\ refused' \subseteq Clients
      BY <2>0, <3>1
    <3>3. \A d \in Clients : held'[d] # None => held'[d] <= version'
      BY <2>0, <3>1 DEF StoreInv
    <3>4. TypeOK'
      BY <2>0, <3>1, <3>2 DEF TypeOK, AllTexts
    <3>5. NoLostEdit'
      BY <3>1 DEF StoreInv, NoLostEdit
    <3> QED
      BY <3>1, <3>3, <3>4, <3>5 DEF StoreInv
  <2>2. ASSUME NEW c \in Clients, NEW draft \in Drafts, CommitClean(c, draft) PROVE StoreInv'
    <3>1. /\ held[c] # None /\ Store(draft) /\ Record(c, draft)
          /\ held' = [held EXCEPT ![c] = None] /\ UNCHANGED refused
          /\ version = 0 \/ version = held[c]
      BY <2>2 DEF CommitClean
    <3>2. draft \in AllTexts
      BY DraftsAssumption DEF AllTexts
    <3>3. BaseOf(held[c]) = content
      <4>1. held[c] \in 0..MaxVersion /\ held[c] <= version
        BY <2>0, <3>1 DEF StoreInv
      <4>2. CASE version = 0
        BY <2>0, <4>1, <4>2 DEF BaseOf, StoreInv
      <4>3. CASE version # 0 /\ version = held[c]
        BY <2>0, <4>1, <4>3 DEF BaseOf, StoreInv
      <4> QED
        BY <3>1, <4>2, <4>3
    <3>4. \A x \in Lines : Count(draft.lines, x) + Count(BaseOf(held[c]).lines, x)
                             = Count(content.lines, x) + Count(draft.lines, x)
      <4> TAKE x \in Lines
      <4>1. Count(draft.lines, x) \in Nat /\ Count(content.lines, x) \in Nat
        BY <2>0, <3>2, CountOfText
      <4> QED
        BY <3>3, <4>1
    <3> QED
      BY <3>1, <3>2, <3>4, StoreStep
  <2>3. ASSUME NEW c \in Clients, NEW draft \in Drafts, CommitMerge(c, draft) PROVE StoreInv'
    <3>1. /\ held[c] # None /\ Record(c, draft)
          /\ CanMerge(BaseOf(held[c]), content, draft)
          /\ Store(Merge(BaseOf(held[c]), content, draft))
          /\ held' = [held EXCEPT ![c] = None] /\ UNCHANGED refused
      BY <2>3 DEF CommitMerge
    <3>2. draft \in AllTexts /\ BaseOf(held[c]) \in AllTexts
      BY DraftsAssumption, BaseIsText DEF AllTexts, StoreInv
    <3>3. PICK new : new = Merge(BaseOf(held[c]), content, draft)
      OBVIOUS
    <3>4. /\ new \in AllTexts
          /\ Accounted(new, BaseOf(held[c]), content, draft)
      <4>1. Blank \in Lines \union {Blank}
        OBVIOUS
      <4> QED
        BY <2>0, <3>1, <3>2, <3>3, <4>1, MergeAccounts, Zenon DEF AllTexts
    <3>5. \A x \in Lines : x # Blank
      BY DEF Lines
    <3>6. Store(new)
      BY <3>1, <3>3
    <3> QED
      BY <3>1, <3>2, <3>4, <3>5, <3>6, StoreStep DEF Accounted
  <2>4. ASSUME NEW c \in Clients, NEW draft \in Drafts, CommitRefused(c, draft) PROVE StoreInv'
    <3>1. /\ held' = [held EXCEPT ![c] = None] /\ refused' = refused \union {c}
          /\ UNCHANGED <<version, content, history, net>>
      BY <2>4 DEF CommitRefused
    <3>2. held' \in [Clients -> 0..MaxVersion \union {None}] /\ refused' \subseteq Clients
      BY <2>0, <3>1
    <3>3. \A d \in Clients : held'[d] # None => held'[d] <= version'
      BY <2>0, <3>1 DEF StoreInv
    <3>4. TypeOK'
      BY <2>0, <3>1, <3>2 DEF TypeOK, AllTexts
    <3>5. NoLostEdit'
      BY <3>1 DEF StoreInv, NoLostEdit
    <3> QED
      BY <3>1, <3>3, <3>4, <3>5 DEF StoreInv
  <2>5. CASE UNCHANGED vars
    BY <2>5 DEF vars, StoreInv, TypeOK, NoLostEdit
  <2> QED
    BY <2>1, <2>2, <2>3, <2>4, <2>5 DEF Next
<1> QED
  BY <1>1, <1>2, PTL DEF Spec

\* The file, its history and what clients hold keep their types through every
\* checkout, commit, merge and refusal; a merge is again the splitlines() of
\* some string.
THEOREM StoreTypeCorrect == Spec => []TypeOK
<1>1. StoreInv => TypeOK
  BY DEF StoreInv
<1> QED
  BY <1>1, StoreInvariant, PTL

\* FileStore.commit never loses an accepted edit and never applies one twice:
\* the file holds every line that is not blank as often as all accepted
\* commits together say, however many clients commit in whatever order against
\* whatever version.
THEOREM StoreLosesNothing == Spec => []NoLostEdit
<1>1. StoreInv => NoLostEdit
  BY DEF StoreInv
<1> QED
  BY <1>1, StoreInvariant, PTL

\* The history merges take their base from: versions grow by one, no version
\* that was ever current is changed, and the newest is the content.
THEOREM HistoryIsFaithful == Spec => HistoryFaithful
<1> DEFINE Faithful ==
      /\ version' \in {version, version + 1}
      /\ \A v \in 1..version : history'[v] = history[v]
      /\ content' # content => version' = version + 1
      /\ version' > 0 => history'[version'] = content'
<1>1. StoreInv /\ StoreInv' /\ [Next]_vars => [Faithful]_vars
  <2> SUFFICES ASSUME StoreInv, StoreInv', Next PROVE Faithful
    OBVIOUS
  <2>1. version \in Nat
    BY BoundAssumption DEF StoreInv, TypeOK
  <2>2. version' > 0 => history'[version'] = content'
    BY DEF StoreInv
  <2>3. ASSUME NEW new, Store(new) PROVE Faithful
    <3>1. /\ version' = version + 1
          /\ \A v \in 1..version : history'[v] = history[v]
      BY <2>1, <2>3 DEF Store
    <3> QED
      BY <2>2, <3>1
  <2>4. ASSUME UNCHANGED <<version, content, history>> PROVE Faithful
    BY <2>2, <2>4
  <2>5. PICK c \in Clients :
          \/ Checkout(c)
          \/ \E draft \in Drafts :
               CommitClean(c, draft) \/ CommitMerge(c, draft) \/ CommitRefused(c, draft)
    BY DEF Next
  <2>6. CASE Checkout(c)
    BY <2>4, <2>6 DEF Checkout
  <2>7. ASSUME NEW draft \in Drafts, CommitClean(c, draft) PROVE Faithful
    BY <2>3, <2>7 DEF CommitClean
  <2>8. ASSUME NEW draft \in Drafts, CommitMerge(c, draft) PROVE Faithful
    BY <2>3, <2>8 DEF CommitMerge
  <2>9. ASSUME NEW draft \in Drafts, CommitRefused(c, draft) PROVE Faithful
    BY <2>4, <2>9 DEF CommitRefused
  <2> QED
    BY <2>5, <2>6, <2>7, <2>8, <2>9
<1>2. StoreInv /\ [Next]_vars => [Faithful]_vars \/ ~ StoreInv'
  BY <1>1
<1> QED
  BY <1>1, StoreInvariant, PTL DEF Spec, HistoryFaithful

\* WriteConflict is raised only if two edits really met: somebody committed
\* since the checkout, and both sides changed lines of the common version.
THEOREM RefusalIsJustified == Spec => RefusalJustified
<1> DEFINE Justified ==
      \A c \in Clients : \A draft \in Drafts :
        CommitRefused(c, draft) =>
          /\ held[c] < version
          /\ content.lines # BaseOf(held[c]).lines
          /\ draft.lines # BaseOf(held[c]).lines
<1>1. StoreInv /\ [Next]_vars => [Justified]_vars
  <2> SUFFICES ASSUME StoreInv, NEW c \in Clients, NEW draft \in Drafts, CommitRefused(c, draft)
               PROVE  /\ held[c] < version
                      /\ content.lines # BaseOf(held[c]).lines
                      /\ draft.lines # BaseOf(held[c]).lines
    OBVIOUS
  <2>1. /\ held[c] # None /\ version # 0 /\ version # held[c]
        /\ ~ CanMerge(BaseOf(held[c]), content, draft)
    BY DEF CommitRefused
  <2>2. held[c] < version
    <3>1. held[c] \in 0..MaxVersion /\ held[c] <= version /\ version \in 0..MaxVersion
      BY <2>1 DEF StoreInv, TypeOK
    <3> QED
      BY <2>1, <3>1
  <2>3. PICK old : old = BaseOf(held[c]).lines
    OBVIOUS
  <2>4. Conflicting(Edits(old, content.lines), Edits(old, draft.lines))
    BY <2>1, <2>3, Zenon DEF CanMerge
  <2>5. Edits(old, content.lines) # {} /\ Edits(old, draft.lines) # {}
    BY <2>4 DEF Conflicting
  <2>6. Edits(old, old) = {}
    <3>1. old \in Seq(Lines \union {Blank})
      BY <2>3, BaseIsText, TextsElim DEF AllTexts, StoreInv
    <3> QED
      BY <3>1, NoChangeNoEdits
  <2> QED
    BY <2>2, <2>3, <2>5, <2>6
<1> QED
  BY <1>1, StoreInvariant, PTL DEF Spec, RefusalJustified
==============================================================================
