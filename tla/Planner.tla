------------------------------- MODULE Planner -------------------------------
(***************************************************************************)
(* Company.plan_dynamically of ai_company/company.py and parse_plan of     *)
(* ai_company/planner.py: two model calls, then the second answer is       *)
(* turned into a task graph item by item and validated; a PlanParseError   *)
(* makes the company fall back to the standard workflow, any other         *)
(* exception escapes to the caller.                                        *)
(*                                                                         *)
(* An answer is a body with something before and after it: nothing, a line *)
(* with a fence, prose, or prose with square brackets in it.  The body is  *)
(* a JSON "array" of items, an "object" that holds such an array and no    *)
(* other list, or "none" (nothing the repair could turn into a list of     *)
(* objects).  An item has a role, a task_id and a depends_on, each         *)
(* possibly Missing; NoObject is an item that is no JSON object, and       *)
(* NotIterable a depends_on such as null or 3.  Titles and descriptions    *)
(* are left out: they cannot fail on their own.                            *)
(***************************************************************************)
EXTENDS LLMClient

CONSTANTS Ids,          \* every id a plan may mention
          Answers,      \* what the tech lead may answer
          MaxTasks,     \* the longest array that is accepted, 20 in the code
          Missing,      \* no such field
          NotIterable, NoObject

ASSUME PlannerAssumption == MaxTasks \in Nat \ {0}

\* The items of an answer mention ids of Ids.
ASSUME AnswersAssumption ==
  \A a \in Answers : \A i \in 1..Len(a.items) :
    a.items[i] # NoObject => a.items[i].id \in Ids \union {Missing}

\* The keys of ROLE_PROMPTS.
Roles == {"product_manager", "tech_lead", "backend", "frontend", "qa", "devops", "security"}

Plan(tasks) == INSTANCE TaskGraph WITH Tasks <- tasks, Names <- Ids \union tasks

Implementations == {"impl_backend", "impl_frontend"}
Reviews == {"qa_review", "security_review"}
StandardTasks == {"spec", "plan", "release"} \union Implementations \union Reviews

\* depends_on, as _build_standard_workflow writes it.
StandardPlan ==
  [t \in StandardTasks |->
     IF t = "spec" THEN {}
     ELSE IF t = "plan" THEN {"spec"}
     ELSE IF t \in Implementations THEN {"plan"}
     ELSE IF t \in Reviews THEN Implementations
     ELSE Reviews]

StandardRoles ==
  [t \in StandardTasks |->
     CASE t = "spec"            -> "product_manager"
       [] t = "plan"            -> "tech_lead"
       [] t = "impl_backend"    -> "backend"
       [] t = "impl_frontend"   -> "frontend"
       [] t = "qa_review"       -> "qa"
       [] t = "security_review" -> "security"
       [] OTHER                 -> "devops"]

VARIABLES answer,   \* raw_plan
          phase,    \* where plan_dynamically is
          next,     \* i of the loop over the items, from 1
          graph,    \* depends_on of the tasks added so far
          roles     \* their role

plannerVars == <<answer, phase, next, graph, roles>>
vars == <<clientVars, plannerVars>>

NoTasks == [t \in {} |-> {}]
NoAnswer == [before |-> "nothing", body |-> "none", after |-> "nothing", items |-> <<>>]

TypeOK ==
  /\ ClientTypeOK
  /\ phase \in {"spec", "plan", "decode", "build", "validate",
                "accepted", "fallback", "raised", "escaped"}
  /\ next \in 1..(MaxTasks + 1)
  /\ DOMAIN graph \subseteq Ids \union DOMAIN StandardPlan
  /\ DOMAIN roles = DOMAIN graph
  /\ \A t \in DOMAIN roles : roles[t] \in Roles

Init ==
  /\ ClientInit
  /\ answer = NoAnswer
  /\ phase = "spec"
  /\ next = 1
  /\ graph = NoTasks
  /\ roles = NoTasks

------------------------------------------------------------------------------
(* plan_dynamically. *)

Calling == phase \in {"spec", "plan"}

\* Inside OpenAICompatibleLLM.complete.
CallModel == Calling /\ ClientStep /\ UNCHANGED plannerVars

\* The product manager's answer, then the tech lead's, may be anything.
ModelAnswers ==
  /\ call = "returned"
  /\ \/ phase = "spec" /\ phase' = "plan" /\ UNCHANGED answer
     \/ phase = "plan" /\ phase' = "decode" /\ answer' \in Answers
  /\ NewCall
  /\ UNCHANGED <<next, graph, roles>>

\* complete() raised, or Agent.work did, on a content of null; nothing here
\* catches it.
ModelFails ==
  /\ Calling
  /\ call \in {"returned", "raised", "escaped"}
  /\ phase' = "raised"
  /\ UNCHANGED <<clientVars, answer, next, graph, roles>>

------------------------------------------------------------------------------
(* parse_plan. *)

\* What a PlanParseError does.
FallBack ==
  /\ phase' = "fallback"
  /\ graph' = StandardPlan
  /\ roles' = StandardRoles
  /\ UNCHANGED <<clientVars, answer, next>>

\* What _strip_fences leaves is the body alone.  A last line with a fence is
\* stripped only if there is one in front.
Stripped ==
  <<answer.before, answer.after>> \in
    {<<"nothing", "nothing">>, <<"fence", "nothing">>, <<"fence", "fence">>}

\* json.loads yields a list.  If the body stands alone, it is what is read; else
\* that fails, and the repair reads from the first "[" to the last "]", which
\* takes the array out of an object too and trips over brackets in the prose.
ReadsList ==
  \/ Stripped /\ answer.body = "array"
  \/ /\ ~ Stripped
     /\ answer.body \in {"array", "object"}
     /\ "brackets" \notin {answer.before, answer.after}

\* Reading the answer, and the test of its type and length.
Decode ==
  /\ phase = "decode"
  /\ IF ReadsList /\ Len(answer.items) \in 1..MaxTasks
     THEN phase' = "build" /\ UNCHANGED <<clientVars, answer, next, graph, roles>>
     ELSE FallBack

\* Bug: any role will do.
RejectedMissing(item) ==
  item # NoObject => Missing \in {item.role, item.id}

\* What parse_plan rejects before it looks at depends_on.
RejectedFields(item) ==
  item # NoObject => item.role \notin Roles \/ item.id = Missing

DependsOn(item) == IF item.deps = Missing THEN {} ELSE item.deps

Current == answer.items[next]
Building == phase = "build" /\ next <= Len(answer.items)

\* Bug: a later task of the same id replaces the earlier one.
AddReplacing ==
  /\ Building
  /\ ~ RejectedFields(Current)
  /\ Current.deps # NotIterable
  /\ graph' = [t \in DOMAIN graph \union {Current.id} |->
                 IF t = Current.id THEN DependsOn(Current) ELSE graph[t]]
  /\ roles' = [t \in DOMAIN graph \union {Current.id} |->
                 IF t = Current.id THEN Current.role ELSE roles[t]]
  /\ next' = next + 1
  /\ UNCHANGED <<clientVars, answer, phase>>

\* Task(...) and add_task.
Add ==
  /\ Building
  /\ ~ RejectedFields(Current)
  /\ Current.deps # NotIterable
  /\ Current.id \notin DOMAIN graph
  /\ graph' = [t \in DOMAIN graph \union {Current.id} |->
                 IF t = Current.id THEN DependsOn(Current) ELSE graph[t]]
  /\ roles' = [t \in DOMAIN graph \union {Current.id} |->
                 IF t = Current.id THEN Current.role ELSE roles[t]]
  /\ next' = next + 1
  /\ UNCHANGED <<clientVars, answer, phase>>

\* A bad field, or an id that add_task has seen before.
Reject ==
  /\ Building
  /\ ~ RejectedFields(Current) =>
       Current.deps # NotIterable /\ Current.id \in DOMAIN graph
  /\ FallBack

\* Iterating over depends_on raises a TypeError, which nobody here catches.
Escape ==
  /\ Building
  /\ ~ RejectedFields(Current)
  /\ Current.deps = NotIterable
  /\ phase' = "escaped"
  /\ UNCHANGED <<clientVars, answer, next, graph, roles>>

Built ==
  /\ phase = "build"
  /\ next > Len(answer.items)
  /\ phase' = "validate"
  /\ UNCHANGED <<clientVars, answer, next, graph, roles>>

\* Bug: cycles are looked for, unknown ids are not.
ValidateCycles ==
  /\ phase = "validate"
  /\ IF Plan(DOMAIN graph)!Acyclic(graph)
     THEN phase' = "accepted" /\ UNCHANGED <<clientVars, answer, next, graph, roles>>
     ELSE FallBack

\* graph.validate().
Validate ==
  /\ phase = "validate"
  /\ IF Plan(DOMAIN graph)!ValidGraph(graph)
     THEN phase' = "accepted" /\ UNCHANGED <<clientVars, answer, next, graph, roles>>
     ELSE FallBack

Planned == phase \in {"accepted", "fallback", "raised", "escaped"}

Terminating == Planned /\ UNCHANGED vars

Step == CallModel \/ ModelAnswers \/ ModelFails \/ Decode \/ Add \/ Reject \/ Escape \/ Built \/ Validate

Next == Step \/ Terminating

Spec == Init /\ [][Next]_vars

------------------------------------------------------------------------------
(* Properties. *)

\* Whichever way it was obtained, the graph the scheduler gets is one that it
\* will run: at least one task and at most MaxTasks (or the standard workflow),
\* a DAG over known ids, each task for a role that has an agent.
PlanIsRunnable ==
  phase \in {"accepted", "fallback"} =>
    /\ DOMAIN graph # {}
    /\ graph = StandardPlan \/ Cardinality(DOMAIN graph) <= MaxTasks
    /\ Plan(DOMAIN graph)!ValidGraph(graph)
    /\ \A t \in DOMAIN graph : roles[t] \in Roles

\* An accepted plan is the answer, item for item: the defaults and the loop lose
\* no task, no dependency and no role, and merge no two tasks into one.
AcceptedVerbatim ==
  phase = "accepted" =>
    /\ Cardinality(DOMAIN graph) = Len(answer.items)
    /\ \A i \in 1..Len(answer.items) :
         /\ answer.items[i].id \in DOMAIN graph
         /\ graph[answer.items[i].id] = DependsOn(answer.items[i])
         /\ roles[answer.items[i].id] = answer.items[i].role

\* "automatic fallback to the standard workflow on any bad plan" (README.md):
\* once the tech lead has answered, there is a graph to run.
AnyBadPlanFallsBack == phase # "escaped"
==============================================================================
