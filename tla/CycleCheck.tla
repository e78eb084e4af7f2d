------------------------------ MODULE CycleCheck ------------------------------
(***************************************************************************)
(* TaskGraph.validate(), step by step: the pass over the dependency lists, *)
(* then the three-colour depth-first search of _check_for_cycles.  `path'  *)
(* is the recursion stack of visit() (and the list it prints), todo[t] the *)
(* part of depends_on that visit(t) has not looked at yet.                 *)
(*                                                                         *)
(* Abstracted: the order of the tasks dict and of a depends_on list (any   *)
(* order is explored), and a dependency listed twice (the second look finds*)
(* a black task and does nothing).                                         *)
(***************************************************************************)
EXTENDS TaskGraph, Integers, Sequences

CONSTANT Graphs     \* the graphs validate() may be called on

ASSUME CycleCheckAssumption == Graphs \subseteq Graph

VARIABLES dependsOn, phase, color, path, todo, closing

vars == <<dependsOn, phase, color, path, todo, closing>>

Colors == {"white", "grey", "black"}
Phases == {"known", "search", "unknown", "cycle", "ok"}

TypeOK ==
  /\ dependsOn \in Graph
  /\ phase \in Phases
  /\ color \in [Tasks -> Colors]
  /\ path \in Seq(Tasks)
  /\ todo \in [Tasks -> SUBSET Names]
  /\ closing \in SUBSET Tasks

Init ==
  /\ dependsOn \in Graphs
  /\ phase = "known"
  /\ color = [t \in Tasks |-> "white"]
  /\ path = <<>>
  /\ todo = [t \in Tasks |-> {}]
  /\ closing = {}     \* the dependency that closed a cycle, once one was met

Colored(c) == {t \in Tasks : color[t] = c}
Top == path[Len(path)]

\* The first loop of validate().
CheckKnown ==
  /\ phase = "known"
  /\ phase' = IF KnownDeps(dependsOn) THEN "search" ELSE "unknown"
  /\ UNCHANGED <<dependsOn, color, path, todo, closing>>

\* The entry of visit(t).
Enter(t, rest) ==
  /\ color' = [color EXCEPT ![t] = "grey"]
  /\ path' = Append(path, t)
  /\ todo' = [rest EXCEPT ![t] = dependsOn[t]]

\* The outer loop starts a search from a white task.
Root(t) ==
  /\ phase = "search"
  /\ path = <<>>
  /\ color[t] = "white"
  /\ Enter(t, todo)
  /\ UNCHANGED <<dependsOn, phase, closing>>

\* Bug: two colours, so a task reached twice counts as a cycle.
ExamineSeen(d) ==
  /\ phase = "search"
  /\ path # <<>>
  /\ d \in todo[Top]
  /\ LET rest == [todo EXCEPT ![Top] = @ \ {d}] IN
     \/ /\ color[d] # "white"
        /\ phase' = "cycle"
        /\ closing' = {d}
        /\ todo' = rest
        /\ UNCHANGED <<color, path>>
     \/ /\ color[d] = "white"
        /\ Enter(d, rest)
        /\ UNCHANGED <<phase, closing>>
  /\ UNCHANGED dependsOn

\* One iteration of the loop over depends_on, in the call on top of the stack.
Examine(d) ==
  /\ phase = "search"
  /\ path # <<>>
  /\ d \in todo[Top]
  /\ LET rest == [todo EXCEPT ![Top] = @ \ {d}] IN
     \/ /\ color[d] = "grey"
        /\ phase' = "cycle"
        /\ closing' = {d}
        /\ todo' = rest
        /\ UNCHANGED <<color, path>>
     \/ /\ color[d] = "white"
        /\ Enter(d, rest)
        /\ UNCHANGED <<phase, closing>>
     \/ /\ color[d] = "black"
        /\ todo' = rest
        /\ UNCHANGED <<phase, color, path, closing>>
  /\ UNCHANGED dependsOn

\* Bug: the colour stays grey after the return.
LeaveGrey ==
  /\ phase = "search"
  /\ path # <<>>
  /\ todo[Top] = {}
  /\ path' = SubSeq(path, 1, Len(path) - 1)
  /\ UNCHANGED <<dependsOn, phase, color, todo, closing>>

\* visit() returns: nothing left to examine.
Leave ==
  /\ phase = "search"
  /\ path # <<>>
  /\ todo[Top] = {}
  /\ color' = [color EXCEPT ![Top] = "black"]
  /\ path' = SubSeq(path, 1, Len(path) - 1)
  /\ UNCHANGED <<dependsOn, phase, todo, closing>>

\* The outer loop is over; validate() returns.
Accept ==
  /\ phase = "search"
  /\ path = <<>>
  /\ Colored("white") = {}
  /\ phase' = "ok"
  /\ UNCHANGED <<dependsOn, color, path, todo, closing>>

Decided == phase \in {"unknown", "cycle", "ok"}

Terminating == Decided /\ UNCHANGED vars

Step == CheckKnown \/ Leave \/ Accept \/ \E t \in Tasks : Root(t) \/ Examine(t)

Next == Step \/ Terminating

Spec == Init /\ [][Next]_vars /\ WF_vars(Step)

------------------------------------------------------------------------------
(* Properties. *)

\* validate() accepts a graph only if it is a DAG over known ids, and raises
\* the error that applies: a CycleError only when there is a cycle.
VerdictCorrect ==
  /\ phase = "unknown" => ~ KnownDeps(dependsOn)
  /\ phase = "cycle" => KnownDeps(dependsOn) /\ ~ Acyclic(dependsOn)
  /\ phase = "ok" => ValidGraph(dependsOn)

\* The chain a CycleError prints (path followed by the closing dependency) is
\* a chain of real dependencies that comes back to a task it already named.
ReportedCycleIsReal ==
  /\ \A i \in 1..(Len(path) - 1) : path[i + 1] \in dependsOn[path[i]]
  /\ \A d \in closing :
       /\ d \in dependsOn[Top]
       /\ \E k \in 1..Len(path) : path[k] = d

\* The search ends, on cyclic graphs too.
Termination == <>Decided

------------------------------------------------------------------------------
(* The inductive invariant of the search. *)

OnPath(t) == \E i \in 1..Len(path) : path[i] = t

\* Before the search nothing is coloured; from it on all ids are known.
PhaseInv ==
  /\ phase \in {"known", "unknown"} =>
       path = <<>> /\ \A t \in Tasks : color[t] = "white"
  /\ phase = "unknown" => ~ KnownDeps(dependsOn)
  /\ phase \in {"search", "cycle", "ok"} => KnownDeps(dependsOn)
  /\ phase = "ok" => \A t \in Tasks : color[t] = "black"

\* The grey tasks are the recursion stack, each once, each a dependency of the
\* one below it.
PathInv ==
  /\ \A t \in Tasks : color[t] = "grey" <=> OnPath(t)
  /\ \A i, j \in 1..Len(path) : path[i] = path[j] => i = j
  /\ \A i \in 1..Len(path) : todo[path[i]] \subseteq dependsOn[path[i]]
  /\ \A i \in 1..(Len(path) - 1) : path[i + 1] \in dependsOn[path[i]]

\* What a call has looked at is black, or is the call it is waiting for.
ExaminedInv ==
  phase = "search" =>
    \A i \in 1..Len(path) : \A d \in dependsOn[path[i]] \ todo[path[i]] :
      color[d] = "black" \/ (i < Len(path) /\ d = path[i + 1])

\* The black tasks are closed under dependencies and contain no cycle.
BlackInv ==
  /\ \A t \in Colored("black") : dependsOn[t] \subseteq Colored("black")
  /\ \A S \in SUBSET Colored("black") :
       S # {} => \E t \in S : dependsOn[t] \cap S = {}

CycleInv ==
  /\ phase # "cycle" => closing = {}
  /\ phase = "cycle" =>
       path # <<>> /\ \E d \in Tasks : closing = {d} /\ d \in dependsOn[Top] /\ OnPath(d)

SearchInv ==
  /\ TypeOK
  /\ PhaseInv
  /\ PathInv
  /\ ExaminedInv
  /\ BlackInv
  /\ CycleInv
==============================================================================
