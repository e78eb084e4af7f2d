------------------------- MODULE FailureCascadeProofs -------------------------
(***************************************************************************)
(* The two loops of task_graph.py, for every set of tasks and every graph: *)
(*                                                                         *)
(* The depth-first search of CycleCheck decides acyclicity.  A black set   *)
(* that is closed and contains no cycle grows by one task at a time; the   *)
(* recursion stack is a chain of dependencies, so a dependency found on it *)
(* closes a cycle.                                                         *)
(*                                                                         *)
(* The sweeps of mark_failed compute the least closed set, whatever the    *)
(* order of the tasks dict: what they have blocked so far belongs to that  *)
(* set, and a sweep that changes nothing leaves nothing out of it.  The    *)
(* graph is one that validate() accepted, which the invariant of the       *)
(* search says.                                                            *)
(***************************************************************************)
EXTENDS FailureCascade, TaskGraphProofs, SequenceTheorems

------------------------------------------------------------------------------
(* The search. *)

LEMMA SearchFacts ==
  ASSUME SearchInv, phase = "search"
  PROVE  /\ dependsOn \in [Tasks -> SUBSET Tasks]
         /\ TypeOK /\ PathInv /\ BlackInv /\ ExaminedInv
         /\ Len(path) \in Nat
         /\ path # <<>> => Len(path) \in 1..Len(path) /\ Top \in Tasks /\ color[Top] = "grey"
<1>1. /\ TypeOK /\ PathInv /\ BlackInv /\ ExaminedInv
      /\ dependsOn \in [Tasks -> SUBSET Tasks]
  BY DEF SearchInv, PhaseInv, TypeOK, Graph, KnownDeps
<1>2. Len(path) \in Nat
  BY <1>1 DEF TypeOK
<1>3. ASSUME path # <<>>
      PROVE  Len(path) \in 1..Len(path) /\ Top \in Tasks /\ color[Top] = "grey"
  <2>1. Len(path) \in 1..Len(path) /\ Top \in Tasks
    BY <1>1, <1>3, EmptySeq DEF TypeOK, Top
  <2>2. OnPath(Top)
    BY <2>1 DEF OnPath, Top
  <2> QED
    BY <1>1, <2>1, <2>2 DEF PathInv
<1> QED
  BY <1>1, <1>2, <1>3

\* A step that enters visit(t) for a white t, from the outer loop or from the
\* call on top of the stack.
LEMMA EnterKeepsInv ==
  ASSUME SearchInv, phase = "search", NEW t \in Tasks, color[t] = "white",
         NEW rest \in [Tasks -> SUBSET Names], Enter(t, rest),
         UNCHANGED <<dependsOn, phase, closing>>,
         path = <<>> => rest = todo,
         path # <<>> => t \in todo[Top] /\ rest = [todo EXCEPT ![Top] = @ \ {t}]
  PROVE  SearchInv'
<1> DEFINE n == Len(path)
<1>0. /\ dependsOn \in [Tasks -> SUBSET Tasks]
      /\ TypeOK /\ PathInv /\ BlackInv /\ ExaminedInv /\ PhaseInv /\ CycleInv
      /\ n \in Nat
  BY SearchFacts DEF SearchInv
<1>1. /\ path' \in Seq(Tasks)
      /\ Len(path') = n + 1
      /\ path'[n + 1] = t
      /\ \A i \in 1..n : path'[i] = path[i] /\ path[i] \in Tasks
  BY <1>0 DEF Enter, TypeOK
<1>2. color' \in [Tasks -> Colors] /\ color'[t] = "grey"
      /\ \A u \in Tasks : u # t => color'[u] = color[u]
  BY <1>0 DEF Enter, TypeOK, Colors
<1>3. todo' \in [Tasks -> SUBSET Names] /\ todo'[t] = dependsOn[t]
      /\ \A u \in Tasks : u # t => todo'[u] = rest[u]
  BY <1>0, NamesAssumption DEF Enter
<1>4. \A i \in 1..n : path[i] # t
  BY <1>0 DEF PathInv, OnPath
<1>5. path = <<>> <=> n = 0
  BY <1>0, EmptySeq DEF TypeOK
<1>6. \A i \in 1..n : /\ i # n => rest[path[i]] = todo[path[i]]
                      /\ i = n => rest[path[i]] = todo[path[i]] \ {t} /\ t \in todo[path[i]]
  BY <1>0, <1>1, <1>5 DEF TypeOK, PathInv, Top
<1>7. TypeOK'
  BY <1>0, <1>1, <1>2, <1>3 DEF TypeOK
<1>8. PhaseInv' /\ CycleInv'
  BY <1>0 DEF PhaseInv, CycleInv
<1>9. PathInv'
  <2>1. \A u \in Tasks : color'[u] = "grey" <=> OnPath(u)'
    <3>1. \A u \in Tasks : OnPath(u)' <=> OnPath(u) \/ u = t
      BY <1>0, <1>1 DEF OnPath
    <3> QED
      BY <1>0, <1>2, <3>1 DEF PathInv
  <2>2. ASSUME NEW i \in 1..(n + 1), NEW j \in 1..(n + 1), path'[i] = path'[j]
        PROVE  i = j
    <3>1. CASE i \in 1..n /\ j \in 1..n
      BY <1>0, <1>1, <2>2, <3>1 DEF PathInv
    <3>2. CASE i = n + 1 \/ j = n + 1
      BY <1>0, <1>1, <1>4, <2>2, <3>2
    <3> QED
      BY <1>0, <3>1, <3>2
  <2>3. ASSUME NEW i \in 1..(n + 1)
        PROVE  todo'[path'[i]] \subseteq dependsOn[path'[i]]
    <3>1. CASE i = n + 1
      BY <1>1, <1>3, <3>1
    <3>2. CASE i \in 1..n
      BY <1>0, <1>1, <1>3, <1>4, <1>6, <3>2 DEF PathInv
    <3> QED
      BY <1>0, <3>1, <3>2
  <2>4. ASSUME NEW i \in 1..n
        PROVE  path'[i + 1] \in dependsOn[path'[i]]
    <3>1. CASE i = n
      BY <1>0, <1>1, <1>6, <3>1 DEF PathInv
    <3>2. CASE i \in 1..(n - 1)
      BY <1>0, <1>1, <3>2 DEF PathInv
    <3> QED
      BY <1>0, <3>1, <3>2
  <2> QED
    BY <1>0, <1>1, <2>1, <2>2, <2>3, <2>4 DEF PathInv
<1>10. ExaminedInv'
  <2> SUFFICES ASSUME NEW i \in 1..(n + 1), NEW d \in dependsOn[path'[i]] \ todo'[path'[i]]
               PROVE  color'[d] = "black" \/ (i < n + 1 /\ d = path'[i + 1])
    BY <1>0, <1>1 DEF ExaminedInv
  <2>1. i \in 1..n
    BY <1>0, <1>1, <1>3
  <2>2. path'[i] = path[i] /\ todo'[path[i]] = rest[path[i]]
    BY <1>1, <1>3, <1>4, <2>1
  <2>3. CASE i = n /\ d = t
    BY <1>0, <1>1, <2>3
  <2>4. CASE i # n \/ d # t
    <3>1. d \in dependsOn[path[i]] \ todo[path[i]]
      BY <1>6, <2>1, <2>2, <2>4
    <3>2. color[d] = "black" \/ (i < n /\ d = path[i + 1])
      BY <1>0, <2>1, <3>1 DEF ExaminedInv
    <3>3. d \in Tasks
      BY <1>0, <1>1, <2>1, <3>1
    <3> QED
      BY <1>0, <1>1, <1>2, <2>1, <3>2, <3>3
  <2> QED
    BY <2>3, <2>4
<1>11. BlackInv'
  <2>1. Colored("black")' = Colored("black")
    BY <1>2 DEF Colored
  <2> QED
    BY <1>0, <2>1 DEF BlackInv
<1> QED
  BY <1>7, <1>8, <1>9, <1>10, <1>11 DEF SearchInv

\* A step that looks at a black dependency.
LEMMA SkipKeepsInv ==
  ASSUME SearchInv, phase = "search", path # <<>>, NEW d \in todo[Top],
         color[d] = "black", todo' = [todo EXCEPT ![Top] = @ \ {d}],
         UNCHANGED <<dependsOn, phase, color, path, closing>>
  PROVE  SearchInv'
<1>0. /\ TypeOK /\ PathInv /\ BlackInv /\ ExaminedInv /\ PhaseInv /\ CycleInv
      /\ Top \in Tasks
  BY SearchFacts DEF SearchInv
<1>1. /\ todo' \in [Tasks -> SUBSET Names]
      /\ todo'[Top] = todo[Top] \ {d}
      /\ \A u \in Tasks : u # Top => todo'[u] = todo[u]
  BY <1>0 DEF TypeOK
<1>2. TypeOK' /\ PhaseInv' /\ BlackInv' /\ CycleInv'
  BY <1>0, <1>1 DEF TypeOK, PhaseInv, BlackInv, CycleInv, Colored, Top, OnPath
<1>3. \A i \in 1..Len(path) : path[i] \in Tasks
  BY <1>0 DEF TypeOK
<1>4. PathInv'
  <2>1. \A i \in 1..Len(path) : todo'[path[i]] \subseteq todo[path[i]]
    BY <1>0, <1>1, <1>3
  <2>2. \A i \in 1..Len(path) : todo'[path[i]] \subseteq dependsOn[path[i]]
    BY <1>0, <2>1 DEF PathInv
  <2> QED
    BY <1>0, <2>2 DEF PathInv, OnPath
<1>5. ExaminedInv'
  BY <1>0, <1>1, <1>3 DEF ExaminedInv
<1> QED
  BY <1>2, <1>4, <1>5 DEF SearchInv
\* A call returns: its dependencies are all black, so the black set stays
\* closed, and a cycle through the new member would leave it.
LEMMA LeaveKeepsInv ==
  ASSUME SearchInv, Leave
  PROVE  SearchInv'
<1> DEFINE n == Len(path)
           x == Top
           B == Colored("black")
<1>0. /\ dependsOn \in [Tasks -> SUBSET Tasks]
      /\ TypeOK /\ PathInv /\ BlackInv /\ ExaminedInv /\ PhaseInv /\ CycleInv
      /\ n \in Nat /\ n \in 1..n
      /\ x \in Tasks /\ color[x] = "grey" /\ x = path[n]
      /\ phase = "search" /\ todo[x] = {}
  BY SearchFacts DEF SearchInv, Leave, Top
<1>1. /\ path' \in Seq(Tasks)
      /\ Len(path') = n - 1
      /\ \A i \in 1..(n - 1) : path'[i] = path[i] /\ path[i] \in Tasks
  <2>1. \A i \in 1..(n - 1) : path[i] \in Tasks
    BY <1>0 DEF TypeOK
  <2>2. n - 1 \in Int /\ 1 \in Int /\ path' = SubSeq(path, 1, n - 1)
    BY <1>0 DEF Leave
  <2> HIDE DEF n
  <2>3. /\ path' \in Seq(Tasks)
        /\ Len(path') = IF 1 <= n - 1 THEN (n - 1) - 1 + 1 ELSE 0
        /\ \A i \in 1..((n - 1) - 1 + 1) : path'[i] = path[1 + i - 1]
    BY <2>1, <2>2, SubSeqProperties
  <2>4. Len(path') = n - 1
    BY <1>0, <2>3
  <2>5. ASSUME NEW i \in 1..(n - 1) PROVE path'[i] = path[i]
    <3>1. i \in 1..((n - 1) - 1 + 1) /\ 1 + i - 1 = i
      BY <1>0
    <3>2. path'[i] = path[1 + i - 1]
      BY <2>3, <3>1
    <3> QED
      BY <3>1, <3>2
  <2> QED
    BY <2>1, <2>3, <2>4, <2>5
<1>2. color' \in [Tasks -> Colors] /\ color'[x] = "black"
      /\ \A u \in Tasks : u # x => color'[u] = color[u]
  BY <1>0 DEF Leave, TypeOK, Colors
<1>3. Colored("black")' = B \union {x}
  BY <1>0, <1>2 DEF Colored
<1>4. \A i \in 1..(n - 1) : path[i] # x
  BY <1>0 DEF PathInv
<1>5. dependsOn[x] \subseteq B
  <2>1. \A d \in dependsOn[x] : color[d] = "black"
    BY <1>0 DEF ExaminedInv
  <2> QED
    BY <1>0, <2>1 DEF Colored
<1>6. x \notin B
  BY <1>0 DEF Colored
<1>7. TypeOK'
  BY <1>0, <1>1, <1>2 DEF TypeOK, Leave
<1>8. PhaseInv' /\ CycleInv'
  BY <1>0 DEF PhaseInv, CycleInv, Leave
<1>9. PathInv'
  <2>1. \A u \in Tasks : color'[u] = "grey" <=> OnPath(u)'
    <3>1. \A u \in Tasks : OnPath(u)' <=> OnPath(u) /\ u # x
      BY <1>0, <1>1, <1>4 DEF OnPath
    <3> QED
      BY <1>0, <1>2, <3>1 DEF PathInv
  <2>2. \A i, j \in 1..(n - 1) : path'[i] = path'[j] => i = j
    BY <1>0, <1>1 DEF PathInv
  <2>3. \A i \in 1..(n - 1) : todo'[path'[i]] \subseteq dependsOn'[path'[i]]
    BY <1>0, <1>1 DEF PathInv, Leave
  <2>4. \A i \in 1..((n - 1) - 1) : path'[i + 1] \in dependsOn'[path'[i]]
    BY <1>0, <1>1 DEF PathInv, Leave
  <2> QED
    BY <1>0, <1>1, <2>1, <2>2, <2>3, <2>4 DEF PathInv
<1>10. ExaminedInv'
  <2> SUFFICES ASSUME NEW i \in 1..(n - 1), NEW d \in dependsOn[path'[i]] \ todo'[path'[i]]
               PROVE  color'[d] = "black" \/ (i < n - 1 /\ d = path'[i + 1])
    BY <1>0, <1>1 DEF ExaminedInv, Leave
  <2>1. i \in 1..n /\ d \in dependsOn[path[i]] \ todo[path[i]] /\ d \in Tasks
    BY <1>0, <1>1 DEF Leave
  <2>2. color[d] = "black" \/ d = path[i + 1]
    BY <1>0, <2>1 DEF ExaminedInv
  <2>3. CASE color[d] = "black"
    BY <1>2, <2>1, <2>3
  <2>4. CASE d = path[i + 1] /\ i = n - 1
    BY <1>0, <1>2, <2>4
  <2>5. CASE d = path[i + 1] /\ i < n - 1
    BY <1>0, <1>1, <2>5
  <2> QED
    BY <1>0, <2>2, <2>3, <2>4, <2>5
<1>11. BlackInv'
  <2> DEFINE A == B \union {x}
  <2>1. \A t \in A : dependsOn[t] \subseteq A
    BY <1>0, <1>5 DEF BlackInv
  <2>2. ASSUME NEW S \in SUBSET A, S # {}
        PROVE  \E t \in S : dependsOn[t] \cap S = {}
    <3>1. CASE S = {x}
      BY <1>5, <1>6, <3>1
    <3>2. CASE S # {x}
      <4> DEFINE R == S \ {x}
      <4>1. R \in SUBSET B /\ R # {}
        BY <2>2, <3>2
      <4>2. PICK t \in R : dependsOn[t] \cap R = {}
        BY <1>0, <4>1 DEF BlackInv
      <4>3. dependsOn[t] \subseteq B
        BY <1>0, <4>1 DEF BlackInv
      <4> QED
        BY <1>6, <4>2, <4>3
    <3> QED
      BY <3>1, <3>2
  <2> HIDE DEF A
  <2>3. Colored("black")' = A /\ dependsOn' = dependsOn
    BY <1>3 DEF A, Leave
  <2> QED
    BY <2>1, <2>2, <2>3 DEF BlackInv
<1> QED
  BY <1>7, <1>8, <1>9, <1>10, <1>11 DEF SearchInv

\* The step that meets a grey dependency.
LEMMA CloseKeepsInv ==
  ASSUME SearchInv, phase = "search", path # <<>>, NEW d \in todo[Top],
         color[d] = "grey", todo' = [todo EXCEPT ![Top] = @ \ {d}],
         phase' = "cycle", closing' = {d},
         UNCHANGED <<dependsOn, color, path>>
  PROVE  SearchInv'
<1>0. /\ TypeOK /\ PathInv /\ BlackInv /\ PhaseInv
      /\ dependsOn \in [Tasks -> SUBSET Tasks]
      /\ Len(path) \in 1..Len(path) /\ Top \in Tasks
  BY SearchFacts DEF SearchInv
<1>1. /\ todo' \in [Tasks -> SUBSET Names]
      /\ \A u \in Tasks : todo'[u] \subseteq todo[u]
  BY <1>0 DEF TypeOK
<1>2. d \in dependsOn[Top] /\ d \in Tasks
  BY <1>0 DEF PathInv, Top
<1>3. OnPath(d)
  BY <1>0, <1>2 DEF PathInv
<1>4. TypeOK' /\ PhaseInv' /\ BlackInv' /\ ExaminedInv'
  BY <1>0, <1>1, <1>2 DEF TypeOK, Phases, PhaseInv, BlackInv, ExaminedInv, Colored
<1>5. CycleInv'
  BY <1>2, <1>3 DEF CycleInv, Top, OnPath
<1>6. \A i \in 1..Len(path) : path[i] \in Tasks
  BY <1>0 DEF TypeOK
<1>7. PathInv'
  BY <1>0, <1>1, <1>6 DEF PathInv, OnPath
<1> QED
  BY <1>4, <1>5, <1>7 DEF SearchInv

------------------------------------------------------------------------------
LEMMA InitSearchInv == Init => SearchInv
<1> SUFFICES ASSUME Init PROVE SearchInv
  OBVIOUS
<1>1. TypeOK
  BY CycleCheckAssumption, EmptySeq DEF Init, TypeOK, Phases, Colors
<1>2. Len(path) = 0
  BY DEF Init
<1>3. PhaseInv /\ CycleInv /\ ExaminedInv /\ PathInv
  BY <1>2 DEF Init, PhaseInv, CycleInv, ExaminedInv, PathInv, OnPath
<1>4. BlackInv
  BY DEF Init, BlackInv, Colored
<1> QED
  BY <1>1, <1>3, <1>4 DEF SearchInv

LEMMA SearchInvStep == SearchInv /\ [Next]_vars => SearchInv'
<1> SUFFICES ASSUME SearchInv, [Next]_vars PROVE SearchInv'
  OBVIOUS
<1>0. TypeOK
  BY DEF SearchInv
<1>1. CASE CheckKnown
  BY <1>0, <1>1 DEF SearchInv, CheckKnown, TypeOK, Phases, PhaseInv, PathInv, OnPath,
                    ExaminedInv, BlackInv, Colored, CycleInv, Top
<1>2. ASSUME NEW t \in Tasks, Root(t) PROVE SearchInv'
  <2>1. todo \in [Tasks -> SUBSET Names]
    BY <1>0 DEF TypeOK
  <2> QED
    BY <1>2, <2>1, EnterKeepsInv DEF Root
<1>3. ASSUME NEW d \in Tasks, Examine(d) PROVE SearchInv'
  <2> DEFINE rest == [todo EXCEPT ![Top] = @ \ {d}]
  <2>1. rest \in [Tasks -> SUBSET Names]
    BY <1>0 DEF TypeOK
  <2>2. /\ phase = "search" /\ path # <<>> /\ d \in todo[Top]
        /\ UNCHANGED dependsOn
    BY <1>3 DEF Examine
  <2>3. CASE color[d] = "grey"
    <3>1. todo' = rest /\ phase' = "cycle" /\ closing' = {d} /\ UNCHANGED <<color, path>>
      BY <1>3, <2>3 DEF Examine
    <3> QED
      BY <2>2, <2>3, <3>1, CloseKeepsInv
  <2>4. CASE color[d] = "white"
    <3>1. Enter(d, rest) /\ UNCHANGED <<phase, closing>>
      BY <1>3, <2>4 DEF Examine
    <3> HIDE DEF rest
    <3>2. rest = [todo EXCEPT ![Top] = @ \ {d}]
      BY DEF rest
    <3> QED
      BY <2>1, <2>2, <2>4, <3>1, <3>2, EnterKeepsInv
  <2>5. CASE color[d] = "black"
    <3>1. todo' = rest /\ UNCHANGED <<phase, color, path, closing>>
      BY <1>3, <2>5 DEF Examine
    <3> QED
      BY <2>2, <2>5, <3>1, SkipKeepsInv
  <2> QED
    BY <1>0, <1>3, <2>3, <2>4, <2>5 DEF TypeOK, Colors
<1>4. CASE Leave
  BY <1>4, LeaveKeepsInv
<1>5. CASE Accept
  <2>1. Len(path) = 0
    BY <1>5 DEF Accept
  <2>2. \A t \in Tasks : color[t] = "black"
    BY <1>0, <1>5, <2>1 DEF Accept, SearchInv, PathInv, OnPath, Colored, TypeOK, Colors
  <2> QED
    BY <1>0, <1>5, <2>2
       DEF SearchInv, Accept, TypeOK, Phases, PhaseInv, PathInv, OnPath, ExaminedInv,
           BlackInv, Colored, CycleInv
<1>6. CASE UNCHANGED vars
  <2>1. TypeOK' /\ PhaseInv' /\ CycleInv'
    BY <1>0, <1>6 DEF SearchInv, vars, TypeOK, PhaseInv, CycleInv, Top, OnPath
  <2>2. PathInv' /\ ExaminedInv'
    BY <1>6 DEF SearchInv, vars, PathInv, OnPath, ExaminedInv
  <2>3. BlackInv'
    BY <1>0, <1>6 DEF SearchInv, vars, BlackInv, Colored
  <2> QED
    BY <2>1, <2>2, <2>3 DEF SearchInv
<1> QED
  BY <1>1, <1>2, <1>3, <1>4, <1>5, <1>6 DEF Next, Step, Terminating

\* The invariant of the search holds in every behaviour of validate().
THEOREM SearchInvariance == Spec => []SearchInv
  BY InitSearchInv, SearchInvStep, PTL DEF Spec

------------------------------------------------------------------------------
\* The answer is right: accepted graphs are DAGs over known ids, and a
\* CycleError or an unknown-id error is raised only with good reason.
THEOREM VerdictIsCorrect == Spec => []VerdictCorrect
<1>1. SearchInv => VerdictCorrect
  <2> SUFFICES ASSUME SearchInv PROVE VerdictCorrect
    OBVIOUS
  <2>1. phase = "unknown" => ~ KnownDeps(dependsOn)
    BY DEF SearchInv, PhaseInv
  <2>2. ASSUME phase = "ok" PROVE ValidGraph(dependsOn)
    <3>1. Colored("black") = Tasks /\ KnownDeps(dependsOn)
      BY <2>2 DEF SearchInv, PhaseInv, Colored
    <3> QED
      BY <3>1 DEF SearchInv, BlackInv, ValidGraph, Acyclic
  <2>3. ASSUME phase = "cycle" PROVE KnownDeps(dependsOn) /\ ~ Acyclic(dependsOn)
    <3> DEFINE n == Len(path)
    <3>0. PathInv /\ TypeOK /\ n \in Nat
      BY DEF SearchInv, TypeOK
    <3>1. PICK d \in Tasks : d \in dependsOn[Top] /\ OnPath(d)
      BY <2>3 DEF SearchInv, CycleInv
    <3>2. PICK k \in 1..n : path[k] = d
      BY <3>1 DEF OnPath
    <3> DEFINE S == {path[i] : i \in k..n}
    <3>3. S \in SUBSET Tasks /\ S # {}
      BY <3>0, <3>2 DEF TypeOK
    <3>4. ASSUME NEW t \in S PROVE dependsOn[t] \cap S # {}
      <4>1. PICK i \in k..n : t = path[i]
        OBVIOUS
      <4>2. CASE i = n
        BY <3>0, <3>1, <3>2, <4>1, <4>2 DEF Top
      <4>3. CASE i \in k..(n - 1)
        <5>1. path[i + 1] \in dependsOn[path[i]] /\ i + 1 \in k..n
          BY <3>0, <3>2, <4>3 DEF PathInv
        <5> QED
          BY <4>1, <5>1
      <4> QED
        BY <3>0, <4>1, <4>2, <4>3
    <3> HIDE DEF S
    <3> QED
      BY <2>3, <3>3, <3>4 DEF Acyclic, SearchInv, PhaseInv
  <2> QED
    BY <2>1, <2>2, <2>3 DEF VerdictCorrect
<1> QED
  BY SearchInvariance, <1>1, PTL

\* The cycle that is reported is a chain of dependencies back into itself.
THEOREM ReportIsReal == Spec => []ReportedCycleIsReal
<1>1. SearchInv => ReportedCycleIsReal
  <2> SUFFICES ASSUME SearchInv PROVE ReportedCycleIsReal
    OBVIOUS
  <2>1. \A i \in 1..(Len(path) - 1) : path[i + 1] \in dependsOn[path[i]]
    BY DEF SearchInv, PathInv
  <2>2. ASSUME NEW d \in closing
        PROVE  d \in dependsOn[Top] /\ \E k \in 1..Len(path) : path[k] = d
    BY <2>2 DEF SearchInv, CycleInv, OnPath
  <2> QED
    BY <2>1, <2>2 DEF ReportedCycleIsReal
<1> QED
  BY SearchInvariance, <1>1, PTL

------------------------------------------------------------------------------
(* The cascade. *)

CascadeTypes ==
  /\ status \in [Tasks -> Statuses]
  /\ before \in [Tasks -> Statuses]
  /\ sweep \subseteq Tasks
  /\ cascade \in {"uncalled", "mark", "sweep", "returned"}

\* mark_failed is called once, on an accepted graph, for a running task.
CalledOn(f) ==
  /\ failing = {f}
  /\ phase = "ok"
  /\ Consistent(dependsOn, before)
  /\ before[f] = "running"

CallInv ==
  IF cascade = "uncalled" THEN failing = {} ELSE \E f \in Tasks : CalledOn(f)

\* What has changed so far: the task itself, and members of the least set.
Under(f) ==
  IF cascade = "mark" THEN status = before
  ELSE /\ status[f] = "failed"
       /\ \A t \in Tasks \ {f} :
            status[t] = before[t]
              \/ (status[t] = "blocked" /\ t \in Fallout(dependsOn, before, f))

\* A sweep that has changed nothing has found nothing among the visited.
SweptInv ==
  /\ cascade \in {"uncalled", "mark"} => changed
  /\ cascade \in {"sweep", "returned"} /\ ~ changed =>
       \A t \in Pending(status) \ sweep : ~ Doomed(dependsOn, status, t)
  /\ cascade = "returned" => ~ changed /\ sweep = {}

CascadeInv ==
  /\ CascadeTypes
  /\ CallInv
  /\ \A f \in failing : Under(f)
  /\ SweptInv

LEMMA SearchGoesOn == CascadeSpec => []SearchInv
<1>1. CascadeInit => SearchInv
  BY InitSearchInv DEF CascadeInit
<1>2. SearchInv /\ [CascadeNext]_allVars => SearchInv'
  <2>1. [CascadeNext]_allVars => [Next]_vars
    BY DEF CascadeNext, CascadeTerminating, Next, allVars
  <2> QED
    BY <2>1, SearchInvStep
<1> QED
  BY <1>1, <1>2, PTL DEF CascadeSpec

\* The graph of an accepted search.
LEMMA AcceptedGraph ==
  ASSUME SearchInv, phase = "ok"
  PROVE  dependsOn \in [Tasks -> SUBSET Tasks]
  BY DEF SearchInv, TypeOK, PhaseInv, Graph, KnownDeps

LEMMA CascadeInvInit == CascadeInit => CascadeInv
  BY DEF CascadeInit, CascadeInv, CascadeTypes, CallInv, SweptInv, Statuses

\* A doomed pending task belongs to the least set: its dependency failed or was
\* blocked before, is the failing task, or was put there by the sweeps.
LEMMA DoomedIsFallout ==
  ASSUME dependsOn \in [Tasks -> SUBSET Tasks], CascadeTypes,
         NEW f \in Tasks, Under(f), cascade # "mark",
         NEW t \in Tasks, status[t] = "pending", Doomed(dependsOn, status, t)
  PROVE  t # f /\ t \in Fallout(dependsOn, before, f)
<1> DEFINE failed == [before EXCEPT ![f] = "failed"]
           C == Fallout(dependsOn, before, f)
<1>1. failed[f] = "failed" /\ \A u \in Tasks \ {f} : failed[u] = before[u]
  BY DEF CascadeTypes
<1> HIDE DEF failed
<1>2. CascadeClosed(dependsOn, failed, C)
  BY CascadeClosure DEF Fallout, failed
<1>3. t # f /\ status[t] = before[t]
  BY DEF Under
<1>4. t \in Pending(failed)
  BY <1>1, <1>3 DEF Pending
<1>5. PICK d \in dependsOn[t] : status[d] \in {"failed", "blocked"}
  BY DEF Doomed
<1>6. d \in C \/ failed[d] \in {"failed", "blocked"}
  BY <1>1, <1>5 DEF Under
<1> HIDE DEF C
<1>7. Doomed(dependsOn, failed, t) \/ dependsOn[t] \cap C # {}
  BY <1>5, <1>6 DEF Doomed
<1>8. t \in C
  BY <1>2, <1>4, <1>7 DEF CascadeClosed
<1> QED
  BY <1>3, <1>8 DEF C

\* When nothing pending is doomed, the whole least set is blocked.
LEMMA FalloutIsBlocked ==
  ASSUME dependsOn \in [Tasks -> SUBSET Tasks], CascadeTypes,
         NEW f \in Tasks, Under(f), cascade # "mark",
         \A t \in Pending(status) : ~ Doomed(dependsOn, status, t)
  PROVE  \A t \in Fallout(dependsOn, before, f) : status[t] = "blocked"
<1> DEFINE failed == [before EXCEPT ![f] = "failed"]
           C == Fallout(dependsOn, before, f)
           D == {t \in C : status[t] = "blocked"}
<1>1. failed[f] = "failed" /\ \A u \in Tasks \ {f} : failed[u] = before[u]
  BY DEF CascadeTypes
<1> HIDE DEF failed
<1>2. CascadeClosed(dependsOn, failed, C) /\ C \subseteq Pending(failed)
  BY CascadeClosure DEF Fallout, failed
<1>3. CascadeClosed(dependsOn, failed, D)
  <2> SUFFICES ASSUME NEW v \in Pending(failed),
                      Doomed(dependsOn, failed, v) \/ dependsOn[v] \cap D # {}
               PROVE  v \in D
    BY DEF CascadeClosed
  <2>1. v \in C /\ v \in Tasks /\ v # f
    <3>1. Doomed(dependsOn, failed, v) \/ dependsOn[v] \cap C # {}
      OBVIOUS
    <3>2. v \in C
      BY <3>1, <1>2 DEF CascadeClosed
    <3> QED
      BY <3>2, <1>1 DEF Pending
  <2>2. \E d \in dependsOn[v] : status[d] \in {"failed", "blocked"}
    <3>1. CASE Doomed(dependsOn, failed, v)
      <4>1. PICK d \in dependsOn[v] : failed[d] \in {"failed", "blocked"}
        BY <3>1 DEF Doomed
      <4>2. d \in Tasks
        BY <2>1
      <4>3. status[d] \in {"failed", "blocked"}
        BY <4>1, <4>2, <1>1 DEF Under
      <4> QED
        BY <4>3
    <3>2. CASE dependsOn[v] \cap D # {}
      BY <3>2
    <3> QED
      BY <3>1, <3>2
  <2>3. status[v] # "pending"
    BY <2>1, <2>2 DEF Pending, Doomed
  <2>4. before[v] = "pending"
    BY <2>1, <1>1 DEF Pending
  <2>5. status[v] = "blocked"
    BY <2>1, <2>3, <2>4 DEF Under
  <2> QED
    BY <2>1, <2>5
<1>4. D \subseteq Pending(failed)
  BY <1>2
<1> HIDE DEF D
<1>5. C \subseteq D
  BY <1>3, <1>4, CascadeLeast DEF Fallout, failed
<1> QED
  BY <1>5 DEF D

------------------------------------------------------------------------------
(* The invariant of the loop, one step per action. *)

LEMMA CallKeepsInv ==
  ASSUME SearchInv, CascadeInv, NEW t \in Tasks, Call(t), UNCHANGED vars
  PROVE  CascadeInv'
<1>1. CascadeTypes'
  BY DEF Call, CascadeInv, CascadeTypes
<1>2. CalledOn(t)'
  BY DEF Call, CalledOn, vars
<1>3. CallInv'
  BY <1>2 DEF Call, CallInv
<1>4. \A f \in failing' : Under(f)'
  BY DEF Call, Under
<1>5. SweptInv'
  BY DEF Call, CascadeInv, SweptInv
<1> QED
  BY <1>1, <1>3, <1>4, <1>5 DEF CascadeInv

LEMMA MarkKeepsInv ==
  ASSUME CascadeInv, Mark, UNCHANGED vars
  PROVE  CascadeInv'
<1>1. PICK f \in Tasks : CalledOn(f)
  BY DEF CascadeInv, CallInv, Mark
<1>2. status = before /\ status \in [Tasks -> Statuses]
  BY <1>1 DEF CascadeInv, CascadeTypes, CalledOn, Under, Mark
<1>3. /\ status' = [t \in Tasks |-> IF t = f THEN "failed" ELSE status[t]]
      /\ cascade' = "sweep"
      /\ UNCHANGED <<changed, sweep, before, failing, phase, dependsOn>>
  BY <1>1 DEF Mark, CalledOn, vars
<1>4. CascadeTypes'
  BY <1>2, <1>3 DEF CascadeInv, CascadeTypes, Statuses
<1>5. CallInv'
  BY <1>1, <1>3 DEF CallInv, CalledOn
<1>6. Under(f)'
  BY <1>2, <1>3 DEF Under
<1>7. \A g \in failing' : Under(g)'
  BY <1>1, <1>3, <1>6 DEF CalledOn
<1> QED
  BY <1>3, <1>4, <1>5, <1>7 DEF CascadeInv, SweptInv, Mark

LEMMA BeginSweepKeepsInv ==
  ASSUME CascadeInv, BeginSweep, UNCHANGED vars
  PROVE  CascadeInv'
<1>1. CascadeTypes'
  BY DEF BeginSweep, CascadeInv, CascadeTypes
<1>2. CallInv'
  BY DEF BeginSweep, CascadeInv, CallInv, CalledOn, vars
<1>3. \A f \in failing' : Under(f)'
  BY DEF BeginSweep, CascadeInv, Under, vars
<1>4. SweptInv'
  BY DEF BeginSweep, SweptInv, Pending
<1> QED
  BY <1>1, <1>2, <1>3, <1>4 DEF CascadeInv

\* A visit blocks a member of the least set or changes nothing; if it changes
\* nothing, the task it looked at is not doomed.
LEMMA VisitKeepsInv ==
  ASSUME SearchInv, CascadeInv, NEW t \in Tasks, Visit(t), UNCHANGED vars
  PROVE  CascadeInv'
<1>1. PICK f \in Tasks : CalledOn(f)
  BY DEF CascadeInv, CallInv, Visit
<1>2. Under(f) /\ CascadeTypes /\ cascade = "sweep" /\ SweptInv
  BY <1>1 DEF CascadeInv, CalledOn, Visit
<1>3. dependsOn \in [Tasks -> SUBSET Tasks]
  BY <1>1, AcceptedGraph DEF CalledOn
<1>4. /\ sweep' = sweep \ {t}
      /\ UNCHANGED <<cascade, before, failing, phase, dependsOn>>
  BY DEF Visit, vars
<1>5. CallInv'
  <2>1. CalledOn(f)' /\ cascade' = "sweep"
    BY <1>1, <1>2, <1>4 DEF CalledOn
  <2> QED
    BY <2>1 DEF CallInv
<1>6. CASE status[t] = "pending" /\ Doomed(dependsOn, status, t)
  <2>1. status' = [status EXCEPT ![t] = "blocked"] /\ changed' = TRUE
    BY <1>6 DEF Visit
  <2>2. t # f /\ t \in Fallout(dependsOn, before, f)
    BY <1>2, <1>3, <1>6, DoomedIsFallout
  <2>3. CascadeTypes'
    BY <1>2, <1>4, <2>1 DEF CascadeTypes, Statuses
  <2>4. Under(f)'
    <3> DEFINE F == Fallout(dependsOn, before, f)
    <3>1. F' = F
      BY <1>4
    <3> HIDE DEF F
    <3>2. \A u \in Tasks \ {f} :
            status'[u] = before[u] \/ (status'[u] = "blocked" /\ u \in F)
      BY <1>2, <2>1, <2>2 DEF Under, CascadeTypes, F
    <3>3. status'[f] = "failed"
      BY <1>2, <2>1, <2>2 DEF Under, CascadeTypes
    <3> QED
      BY <1>2, <1>4, <3>1, <3>2, <3>3 DEF Under, F
  <2>5. \A g \in failing' : Under(g)'
    BY <1>1, <1>4, <2>4 DEF CalledOn
  <2> QED
    BY <1>2, <1>4, <1>5, <2>1, <2>3, <2>5 DEF CascadeInv, SweptInv
<1>7. CASE ~ (status[t] = "pending" /\ Doomed(dependsOn, status, t))
  <2>1. UNCHANGED <<status, changed>>
    BY <1>7 DEF Visit
  <2>2. CascadeTypes'
    BY <1>2, <1>4, <2>1 DEF CascadeTypes
  <2>3. \A g \in failing' : Under(g)'
    BY <1>4, <2>1 DEF CascadeInv, Under
  <2>4. SweptInv'
    BY <1>2, <1>4, <1>7, <2>1 DEF SweptInv, Pending, Doomed
  <2> QED
    BY <1>5, <2>2, <2>3, <2>4 DEF CascadeInv
<1> QED
  BY <1>6, <1>7

LEMMA ReturnKeepsInv ==
  ASSUME CascadeInv, Return, UNCHANGED vars
  PROVE  CascadeInv'
<1>1. CascadeTypes'
  BY DEF Return, CascadeInv, CascadeTypes
<1>2. CallInv'
  BY DEF Return, CascadeInv, CallInv, CalledOn, vars
<1>3. \A f \in failing' : Under(f)'
  BY DEF Return, CascadeInv, Under, vars
<1>4. SweptInv'
  BY DEF Return, CascadeInv, SweptInv, Pending, Doomed, vars
<1> QED
  BY <1>1, <1>2, <1>3, <1>4 DEF CascadeInv

\* The search moves only while nothing has failed yet.
LEMMA StepKeepsInv ==
  ASSUME SearchInv, CascadeInv, Step, UNCHANGED cascadeVars
  PROVE  CascadeInv'
<1>1. phase # "ok"
  BY DEF Step, CheckKnown, Leave, Accept, Root, Examine
<1>2. cascade = "uncalled" /\ failing = {}
  BY <1>1 DEF CascadeInv, CallInv, CalledOn
<1> QED
  BY <1>2 DEF CascadeInv, cascadeVars, CascadeTypes, CallInv, SweptInv

LEMMA CascadeInvStep ==
  SearchInv /\ CascadeInv /\ [CascadeNext]_allVars => CascadeInv'
<1> SUFFICES ASSUME SearchInv, CascadeInv, [CascadeNext]_allVars PROVE CascadeInv'
  OBVIOUS
<1>1. CASE Step /\ UNCHANGED cascadeVars
  BY <1>1, StepKeepsInv
<1>2. CASE CascadeStep /\ UNCHANGED vars
  BY <1>2, MarkKeepsInv, BeginSweepKeepsInv, ReturnKeepsInv, VisitKeepsInv DEF CascadeStep
<1>3. CASE (\E t \in Tasks : Call(t)) /\ UNCHANGED vars
  BY <1>3, CallKeepsInv
<1>4. CASE UNCHANGED allVars
  <2>1. UNCHANGED <<vars, cascadeVars>>
    BY <1>4 DEF allVars
  <2>2. CascadeTypes' /\ CallInv' /\ SweptInv'
    BY <2>1 DEF vars, cascadeVars, CascadeInv, CascadeTypes, CallInv, CalledOn,
                SweptInv, Pending, Doomed
  <2>3. \A f \in failing' : Under(f)'
    BY <2>1 DEF vars, cascadeVars, CascadeInv, Under
  <2> QED
    BY <2>2, <2>3 DEF CascadeInv
<1> QED
  BY <1>1, <1>2, <1>3, <1>4 DEF CascadeNext, CascadeTerminating

LEMMA CascadeInvariance == CascadeSpec => [](SearchInv /\ CascadeInv)
  BY CascadeInvInit, CascadeInvStep, SearchGoesOn, PTL DEF CascadeSpec

------------------------------------------------------------------------------
\* When the sweeps are over the statuses are those of the least closed set, and
\* blocked is what lies downstream of the failed task or was blocked before.
THEOREM SweepsAreLeast == CascadeSpec => []CascadeCorrect
<1>1. ASSUME SearchInv, CascadeInv, cascade = "returned", NEW f \in failing
      PROVE  /\ status = MarkFailed(dependsOn, before, f)
             /\ \A t \in Tasks : status[t] = "blocked" <=>
                  before[t] = "blocked" \/ t \in Downstream(dependsOn, f)
  <2>1. f \in Tasks /\ CalledOn(f)
    BY <1>1 DEF CascadeInv, CallInv, CalledOn
  <2>2. dependsOn \in [Tasks -> SUBSET Tasks]
    BY <1>1, <2>1, AcceptedGraph DEF CalledOn
  <2>3. Under(f) /\ CascadeTypes /\ cascade # "mark"
    BY <1>1 DEF CascadeInv
  <2>4. before \in [Tasks -> Statuses]
    BY <2>3 DEF CascadeTypes
  <2>5. \A t \in Pending(status) : ~ Doomed(dependsOn, status, t)
    BY <1>1 DEF CascadeInv, SweptInv
  <2>6. \A t \in Fallout(dependsOn, before, f) : status[t] = "blocked"
    BY <2>1, <2>2, <2>3, <2>5, FalloutIsBlocked
  <2> DEFINE M == MarkFailed(dependsOn, before, f)
             F == Fallout(dependsOn, before, f)
  <2>7. /\ M \in [Tasks -> Statuses]
        /\ f \notin F
        /\ M[f] = "failed"
        /\ \A u \in F : u \in Tasks /\ M[u] = "blocked"
        /\ \A u \in Tasks : u \notin F /\ u # f => M[u] = before[u]
    <3>1. f \in Tasks
      BY <2>1
    <3> QED
      BY <3>1, <2>4, MarkFailedAt
  <2> HIDE DEF M
  <2>8. \A u \in Tasks : status[u] = M[u]
    BY <2>3, <2>6, <2>7 DEF Under
  <2>9. status = M
    BY <2>3, <2>7, <2>8 DEF CascadeTypes
  <2>10. M = [u \in Tasks |-> IF u = f THEN "failed"
                             ELSE IF u \in Downstream(dependsOn, f) THEN "blocked"
                             ELSE before[u]]
    BY <2>1, <2>2, <2>3, MarkFailedIsDownstream DEF M, CascadeTypes, CalledOn
  <2>11. f \notin Downstream(dependsOn, f)
    BY <2>1, <2>2, <2>3, DownstreamNotStarted DEF CascadeTypes, CalledOn
  <2>12. before[f] # "blocked"
    BY <2>1 DEF CalledOn
  <2> HIDE DEF F
  <2> QED
    BY <2>9, <2>10, <2>11, <2>12 DEF M
<1>2. SearchInv /\ CascadeInv => CascadeCorrect
  BY <1>1 DEF CascadeCorrect
<1> QED
  BY <1>2, CascadeInvariance, PTL
===============================================================================
