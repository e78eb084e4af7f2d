---------------------------- MODULE PlannerProofs ----------------------------
(***************************************************************************)
(* Planning and the client it calls, for every number of retries, every    *)
(* wait, answer and length of a plan.  The client's invariant pairs the    *)
(* attempts with the replies and leaves room for the wait that a failed    *)
(* attempt still has before it; the planner's says that the graph built so *)
(* far is the part of the answer that the loop has passed, one task per    *)
(* item.                                                                   *)
(***************************************************************************)
EXTENDS Planner, FiniteSetTheorems, SequenceTheorems, TLAPS

Kinds == {"text", "limited", "failed", "odd"}

\* Attempts, replies and the seconds slept so far.
TimeInv ==
  /\ call = "request" =>
       Len(replies) + 1 = attempt /\ waited <= Len(replies) * MaxWait
  /\ call \in {"limited", "failed"} =>
       Len(replies) = attempt /\ waited + MaxWait <= Len(replies) * MaxWait
  /\ call \in {"returned", "raised", "escaped"} =>
       Len(replies) \in 1..MaxRetries /\ waited <= Len(replies) * MaxWait
  /\ call = "raised" => Len(replies) = MaxRetries

\* All replies but perhaps the last are failures, and last_error names the last.
ReplyInv ==
  /\ \A i \in 1..Len(replies) :
       i < Len(replies) \/ call \in {"request", "limited", "failed", "raised"} =>
         replies[i] \in {"limited", "failed"}
  /\ call \in {"limited", "failed", "raised"} => lastError = replies[Len(replies)]
  /\ call = "returned" => replies[Len(replies)] = "text"

ClientInv == ClientTypeOK /\ TimeInv /\ ReplyInv

\* The loop of parse_plan has turned the first next - 1 items into tasks.
BuiltInv ==
  phase \in {"build", "validate", "accepted"} =>
    /\ Len(answer.items) \in 1..MaxTasks
    /\ next \in 1..(Len(answer.items) + 1)
    /\ phase # "build" => next = Len(answer.items) + 1
    /\ IsFiniteSet(DOMAIN graph)
    /\ Cardinality(DOMAIN graph) = next - 1
    /\ \A i \in 1..(next - 1) :
         /\ answer.items[i].id \in DOMAIN graph
         /\ graph[answer.items[i].id] = DependsOn(answer.items[i])
         /\ roles[answer.items[i].id] = answer.items[i].role

PhaseInv ==
  /\ phase \in {"spec", "plan", "decode"} => next = 1 /\ graph = NoTasks
  /\ phase \in {"decode", "build"} => answer \in Answers
  /\ phase = "accepted" => Plan(DOMAIN graph)!ValidGraph(graph)
  /\ phase = "fallback" => graph = StandardPlan /\ roles = StandardRoles

PlannerInv == TypeOK /\ ClientInv /\ BuiltInv /\ PhaseInv

------------------------------------------------------------------------------
(* The client. *)

\* One more attempt allows for one more wait.
LEMMA OneMoreAttempt ==
  ASSUME NEW n \in Nat
  PROVE  /\ MaxWait \in Nat /\ MaxWait >= 10 /\ MaxWait >= MaxRateLimitWait
         /\ n * MaxWait \in Nat
         /\ (n + 1) * MaxWait = n * MaxWait + MaxWait
<1>1. MaxWait \in Nat /\ MaxWait >= 10 /\ MaxWait >= MaxRateLimitWait
  BY ClientAssumption DEF MaxWait
<1> HIDE DEF MaxWait
<1>2. ASSUME NEW k \in Nat PROVE n * k \in Nat /\ (n + 1) * k = n * k + k
  OBVIOUS
<1> QED
  BY <1>1, <1>2

LEMMA FreshClient == ClientInit => ClientInv
<1> SUFFICES ASSUME ClientInit PROVE ClientInv
  OBVIOUS
<1> USE DEF ClientInit
<1>1. Len(replies) = 0 /\ replies \in Seq(Kinds)
  BY DEF Kinds
<1>2. 0 * MaxWait = 0
  BY OneMoreAttempt, ClientAssumption
<1>3. ClientTypeOK
  BY <1>1, ClientAssumption DEF ClientTypeOK, Kinds
<1>4. TimeInv
  BY <1>1, <1>2 DEF TimeInv
<1> QED
  BY <1>1, <1>3, <1>4 DEF ClientInv, ReplyInv

\* The second call starts like the first.
LEMMA NewCallIsFresh == NewCall => ClientInv'
<1>1. ClientInit' => ClientInv'
  BY FreshClient, PTL
<1> QED
  BY <1>1 DEF NewCall, ClientInit

\* What a request brings.
LEMMA ReceiveKeepsInv ==
  ASSUME ClientInv, NEW kind \in Kinds, Receive(kind)
  PROVE  /\ Len(replies') = Len(replies) + 1 /\ Len(replies') = attempt'
         /\ attempt' \in 1..MaxRetries /\ waited' \in Nat /\ replies' \in Seq(Kinds)
         /\ waited' + MaxWait <= Len(replies') * MaxWait
         /\ waited' <= Len(replies') * MaxWait
         /\ replies'[Len(replies')] = kind
         /\ \A i \in 1..Len(replies') : i < Len(replies') => replies'[i] \in {"limited", "failed"}
<1> DEFINE n == Len(replies)
           most == n * MaxWait
<1>1. /\ call = "request" /\ replies \in Seq(Kinds) /\ waited \in Nat
      /\ attempt \in 1..MaxRetries /\ n \in Nat
  BY DEF ClientInv, ClientTypeOK, Kinds, Receive
<1>2. n + 1 = attempt /\ waited <= most
  BY <1>1 DEF ClientInv, TimeInv
<1>3. replies' = Append(replies, kind) /\ attempt' = attempt
  BY DEF Receive
<1>4. /\ Len(replies') = n + 1 /\ replies' \in Seq(Kinds)
      /\ replies'[n + 1] = kind
      /\ \A i \in 1..n : replies'[i] = replies[i]
  BY <1>1, <1>3
<1>5. waited' = waited
  BY DEF Receive
<1>6. \A i \in 1..n : replies[i] \in {"limited", "failed"}
  BY <1>1 DEF ClientInv, ReplyInv
<1>7. /\ MaxWait \in Nat /\ most \in Nat
      /\ (n + 1) * MaxWait = most + MaxWait
  BY <1>1, OneMoreAttempt
<1>8. /\ waited' \in Nat
      /\ waited' + MaxWait <= (n + 1) * MaxWait
      /\ waited' <= (n + 1) * MaxWait
  <2> HIDE DEF most
  <2> QED
    BY <1>1, <1>2, <1>5, <1>7
<1>9. \A i \in 1..Len(replies') : i < Len(replies') => replies'[i] \in {"limited", "failed"}
  BY <1>1, <1>4, <1>6
<1> QED
  BY <1>1, <1>2, <1>3, <1>4, <1>8, <1>9

\* After its wait a failed attempt is followed by the next one or by the end.
LEMMA WaitKeepsInv ==
  ASSUME ClientInv, call \in {"limited", "failed"}, NEW w \in Nat, w <= MaxWait,
         waited' = waited + w, NextAttempt, UNCHANGED <<lastError, replies>>
  PROVE  ClientInv'
<1>1. /\ replies \in Seq(Kinds) /\ waited \in Nat /\ attempt \in 1..MaxRetries
      /\ Len(replies) = attempt
      /\ waited + MaxWait <= Len(replies) * MaxWait
      /\ lastError = replies[Len(replies)]
      /\ lastError \in {"none", "limited", "failed"}
      /\ \A i \in 1..Len(replies) : replies[i] \in {"limited", "failed"}
  BY DEF ClientInv, ClientTypeOK, TimeInv, ReplyInv, Kinds
<1>2. MaxRetries \in Nat /\ Len(replies) \in Nat
  BY <1>1, ClientAssumption
<1>3. \/ call' = "request" /\ attempt' = attempt + 1 /\ attempt < MaxRetries
      \/ call' = "raised" /\ attempt' = attempt /\ attempt = MaxRetries
  BY <1>1, <1>2 DEF NextAttempt
<1>4. waited' \in Nat /\ waited' <= Len(replies) * MaxWait
  <2>1. /\ Len(replies) * MaxWait \in Nat /\ MaxWait \in Nat
    BY <1>2, OneMoreAttempt
  <2> QED
    BY <1>1, <2>1
<1>5. ClientTypeOK'
  BY <1>1, <1>2, <1>3, <1>4 DEF ClientTypeOK, Kinds
<1>6. TimeInv'
  BY <1>1, <1>2, <1>3, <1>4 DEF TimeInv
<1>7. ReplyInv'
  BY <1>1, <1>3 DEF ReplyInv
<1> QED
  BY <1>5, <1>6, <1>7 DEF ClientInv

LEMMA ClientStepKeepsInv ==
  ASSUME ClientInv, ClientStep
  PROVE  ClientInv'
<1>0. lastError \in {"none", "limited", "failed"} /\ attempt \in 1..MaxRetries
  BY DEF ClientInv, ClientTypeOK
<1>1. ASSUME NEW kind \in Kinds, Receive(kind),
             \/ kind = "text" /\ call' = "returned" /\ lastError' = lastError
             \/ kind \in {"limited", "failed"} /\ call' = kind /\ lastError' = kind
             \/ kind = "odd" /\ call' = "escaped" /\ lastError' = lastError
      PROVE  ClientInv'
  <2>1. /\ Len(replies') = Len(replies) + 1 /\ Len(replies') = attempt'
        /\ attempt' \in 1..MaxRetries /\ waited' \in Nat /\ replies' \in Seq(Kinds)
        /\ waited' + MaxWait <= Len(replies') * MaxWait
        /\ waited' <= Len(replies') * MaxWait
        /\ replies'[Len(replies')] = kind
        /\ \A i \in 1..Len(replies') : i < Len(replies') => replies'[i] \in {"limited", "failed"}
    BY <1>1, ReceiveKeepsInv
  <2>2. ClientTypeOK'
    BY <1>0, <1>1, <2>1 DEF ClientTypeOK, Kinds
  <2>3. TimeInv'
    BY <1>1, <2>1 DEF TimeInv
  <2>4. ReplyInv'
    <3>1. ASSUME NEW i \in 1..Len(replies')
          PROVE  i < Len(replies') \/ i = Len(replies')
      BY <2>1
    <3> QED
      BY <1>1, <2>1, <3>1 DEF ReplyInv
  <2> QED
    BY <2>2, <2>3, <2>4 DEF ClientInv
<1>2. CASE WaitForLimit
  <2>1. PICK after \in RetryAfters \union {2 * attempt} :
          waited' = waited + LeastOf(after, MaxRateLimitWait)
    BY <1>2 DEF WaitForLimit
  <2>2. after \in Nat /\ MaxRateLimitWait \in Nat /\ MaxWait \in Nat /\ MaxWait >= MaxRateLimitWait
    BY <1>0, OneMoreAttempt, ClientAssumption
  <2>3. LeastOf(after, MaxRateLimitWait) \in Nat /\ LeastOf(after, MaxRateLimitWait) <= MaxWait
    BY <2>2 DEF LeastOf
  <2> QED
    BY <1>2, <2>1, <2>3, WaitKeepsInv DEF WaitForLimit
<1>3. CASE BackOff
  <2>1. BackOffSeconds \in Nat /\ BackOffSeconds <= 10
    BY <1>0 DEF BackOffSeconds
  <2>2. BackOffSeconds <= MaxWait
    BY <2>1, OneMoreAttempt
  <2> QED
    BY <1>3, <2>1, <2>2, WaitKeepsInv DEF BackOff
<1>4. CASE Answered
  BY <1>1, <1>4 DEF Answered, Kinds
<1>5. CASE Limited
  BY <1>1, <1>5 DEF Limited, Kinds
<1>6. CASE Failed
  BY <1>1, <1>6 DEF Failed, Kinds
<1>7. CASE Odd
  BY <1>1, <1>7 DEF Odd, Kinds
<1> QED
  BY <1>2, <1>3, <1>4, <1>5, <1>6, <1>7 DEF ClientStep

------------------------------------------------------------------------------
(* The plan. *)

\* The standard workflow is a graph that validate() would accept.
LEMMA StandardIsValid ==
  /\ DOMAIN StandardPlan # {}
  /\ Plan(DOMAIN StandardPlan)!ValidGraph(StandardPlan)
<1>1. DOMAIN StandardPlan = StandardTasks
  BY DEF StandardPlan
<1>2. Plan(StandardTasks)!KnownDeps(StandardPlan)
  BY DEF Plan!KnownDeps, StandardPlan, StandardTasks, Implementations, Reviews
<1>3. ASSUME NEW S \in SUBSET StandardTasks, S # {}
      PROVE  \E t \in S : StandardPlan[t] \cap S = {}
  <2>1. CASE "spec" \in S
    BY <2>1 DEF StandardPlan, StandardTasks
  <2>2. CASE "spec" \notin S /\ "plan" \in S
    BY <2>2 DEF StandardPlan, StandardTasks
  <2>3. CASE "plan" \notin S /\ \E t \in S : t \in Implementations
    BY <2>3 DEF StandardPlan, StandardTasks, Implementations
  <2>4. CASE (\A t \in S : t \notin Implementations) /\ \E t \in S : t \in Reviews
    BY <2>4 DEF StandardPlan, StandardTasks, Implementations, Reviews
  <2>5. CASE S \subseteq {"release"}
    BY <1>3, <2>5 DEF StandardPlan, StandardTasks, Implementations, Reviews
  <2> QED
    BY <2>1, <2>2, <2>3, <2>4, <2>5 DEF StandardTasks
<1>4. Plan(StandardTasks)!Acyclic(StandardPlan)
  BY <1>3 DEF Plan!Acyclic
<1> QED
  BY <1>1, <1>2, <1>4 DEF Plan!ValidGraph, StandardTasks

\* It is staffed, too.
LEMMA StandardIsStaffed ==
  /\ DOMAIN StandardRoles = DOMAIN StandardPlan
  /\ \A t \in DOMAIN StandardRoles : StandardRoles[t] \in Roles
  BY DEF StandardRoles, StandardPlan, StandardTasks, Implementations, Reviews, Roles

LEMMA PlannerInvInit == Init => PlannerInv
<1> SUFFICES ASSUME Init PROVE PlannerInv
  OBVIOUS
<1>1. ClientInv
  BY FreshClient DEF Init
<1>2. TypeOK
  BY <1>1, PlannerAssumption DEF Init, TypeOK, ClientInv, NoTasks
<1> QED
  BY <1>1, <1>2 DEF Init, PlannerInv, BuiltInv, PhaseInv

\* A PlanParseError leaves the standard workflow.
LEMMA FallBackKeepsInv ==
  ASSUME PlannerInv, FallBack
  PROVE  PlannerInv'
<1>1. TypeOK'
  BY StandardIsStaffed DEF PlannerInv, TypeOK, FallBack, clientVars, ClientTypeOK
<1>2. ClientInv'
  BY DEF PlannerInv, ClientInv, ClientTypeOK, TimeInv, ReplyInv, FallBack, clientVars
<1> QED
  BY <1>1, <1>2 DEF PlannerInv, BuiltInv, PhaseInv, FallBack

\* A step of the planner between the calls leaves the client alone.
LEMMA ClientRests ==
  ASSUME PlannerInv, UNCHANGED clientVars
  PROVE  ClientInv' /\ ClientTypeOK'
  BY DEF PlannerInv, ClientInv, ClientTypeOK, TimeInv, ReplyInv, clientVars

LEMMA AddKeepsInv ==
  ASSUME PlannerInv, Add
  PROVE  PlannerInv'
<1> DEFINE id == Current.id
<1>1. /\ phase = "build" /\ phase' = "build" /\ answer' = answer /\ next' = next + 1
      /\ next <= Len(answer.items) /\ id \notin DOMAIN graph
      /\ UNCHANGED clientVars
  BY DEF Add, Building
<1>2. /\ DOMAIN graph' = DOMAIN graph \union {id}
      /\ graph'[id] = DependsOn(Current)
      /\ DOMAIN roles' = DOMAIN graph \union {id}
      /\ roles'[id] = Current.role
      /\ \A t \in DOMAIN graph : graph'[t] = graph[t] /\ roles'[t] = roles[t]
  BY <1>1 DEF Add
<1>3. Current # NoObject /\ Current.role \in Roles /\ id # Missing
  BY DEF Add, RejectedFields
<1>4. /\ Len(answer.items) \in 1..MaxTasks /\ next \in 1..(Len(answer.items) + 1)
      /\ IsFiniteSet(DOMAIN graph) /\ Cardinality(DOMAIN graph) = next - 1
      /\ \A i \in 1..(next - 1) :
           /\ answer.items[i].id \in DOMAIN graph
           /\ graph[answer.items[i].id] = DependsOn(answer.items[i])
           /\ roles[answer.items[i].id] = answer.items[i].role
      /\ answer \in Answers
  BY <1>1 DEF PlannerInv, BuiltInv, PhaseInv
<1>5. id \in Ids
  BY <1>1, <1>3, <1>4, AnswersAssumption DEF Current
<1>6. TypeOK'
  <2>1. next' \in 1..(MaxTasks + 1)
    BY <1>1, <1>4, PlannerAssumption
  <2> QED
    BY <1>1, <1>2, <1>3, <1>5, <2>1, ClientRests DEF PlannerInv, TypeOK
<1>7. IsFiniteSet(DOMAIN graph') /\ Cardinality(DOMAIN graph') = next' - 1
  <2>1. /\ DOMAIN graph' = DOMAIN graph \union {id}
        /\ IsFiniteSet(DOMAIN graph) /\ id \notin DOMAIN graph
    BY <1>1, <1>2, <1>4
  <2>2. IsFiniteSet(DOMAIN graph') /\ Cardinality(DOMAIN graph') = Cardinality(DOMAIN graph) + 1
    BY <2>1, FS_AddElement
  <2> QED
    BY <1>1, <1>4, <2>2
<1>8. ASSUME NEW i \in 1..(next' - 1)
      PROVE  /\ answer.items[i].id \in DOMAIN graph'
             /\ graph'[answer.items[i].id] = DependsOn(answer.items[i])
             /\ roles'[answer.items[i].id] = answer.items[i].role
  <2>1. CASE i = next
    BY <1>1, <1>2, <2>1 DEF Current
  <2>2. CASE i \in 1..(next - 1)
    BY <1>1, <1>2, <1>4, <2>2
  <2> QED
    BY <1>1, <1>4, <2>1, <2>2
<1>9. BuiltInv'
  <2>1. next' \in 1..(Len(answer.items) + 1)
    BY <1>1, <1>4
  <2> QED
    BY <1>1, <1>4, <1>7, <1>8, <2>1 DEF BuiltInv
<1>10. PhaseInv'
  BY <1>1, <1>4 DEF PhaseInv
<1> QED
  BY <1>1, <1>6, <1>9, <1>10, ClientRests DEF PlannerInv

LEMMA PlannerInvStep == PlannerInv /\ [Next]_vars => PlannerInv'
<1> SUFFICES ASSUME PlannerInv, [Next]_vars PROVE PlannerInv'
  OBVIOUS
<1>1. CASE CallModel
  <2>1. ClientInv'
    BY <1>1, ClientStepKeepsInv DEF CallModel, PlannerInv
  <2> QED
    BY <1>1, <2>1 DEF CallModel, plannerVars, PlannerInv, ClientInv, TypeOK, BuiltInv, PhaseInv
<1>2. CASE ModelAnswers
  <2>1. ClientInv'
    BY <1>2, NewCallIsFresh DEF ModelAnswers
  <2>2. TypeOK'
    BY <1>2, <2>1 DEF ModelAnswers, PlannerInv, ClientInv, TypeOK
  <2> QED
    BY <1>2, <2>1, <2>2 DEF ModelAnswers, PlannerInv, BuiltInv, PhaseInv
<1>3. CASE ModelFails
  BY <1>3, ClientRests DEF ModelFails, PlannerInv, TypeOK, BuiltInv, PhaseInv
<1>4. CASE Decode
  <2>1. CASE ReadsList /\ Len(answer.items) \in 1..MaxTasks
    <3>1. phase' = "build" /\ UNCHANGED <<clientVars, answer, next, graph, roles>>
      BY <1>4, <2>1 DEF Decode
    <3>2. next = 1 /\ graph = NoTasks /\ answer \in Answers
      BY <1>4 DEF Decode, PlannerInv, PhaseInv
    <3>3. IsFiniteSet(DOMAIN graph) /\ Cardinality(DOMAIN graph) = 0 /\ DOMAIN graph = {}
      BY <3>2, FS_EmptySet DEF NoTasks
    <3>4. BuiltInv'
      BY <2>1, <3>1, <3>2, <3>3, PlannerAssumption DEF BuiltInv
    <3> QED
      BY <3>1, <3>2, <3>4, ClientRests DEF PlannerInv, TypeOK, PhaseInv
  <2>2. CASE ~(ReadsList /\ Len(answer.items) \in 1..MaxTasks)
    BY <1>4, <2>2, FallBackKeepsInv DEF Decode
  <2> QED
    BY <2>1, <2>2
<1>5. CASE Reject
  BY <1>5, FallBackKeepsInv DEF Reject
<1>6. CASE Escape
  BY <1>6, ClientRests DEF Escape, PlannerInv, TypeOK, BuiltInv, PhaseInv
<1>7. CASE Built
  <2>1. /\ phase = "build" /\ phase' = "validate" /\ next > Len(answer.items)
        /\ UNCHANGED <<clientVars, answer, next, graph, roles>>
    BY <1>7 DEF Built
  <2>2. BuiltInv'
    BY <2>1 DEF PlannerInv, BuiltInv
  <2> QED
    BY <2>1, <2>2, ClientRests DEF PlannerInv, TypeOK, PhaseInv
<1>8. CASE Validate
  <2>1. CASE Plan(DOMAIN graph)!ValidGraph(graph)
    <3>1. /\ phase = "validate" /\ phase' = "accepted"
          /\ UNCHANGED <<clientVars, answer, next, graph, roles>>
      BY <1>8, <2>1 DEF Validate
    <3>2. BuiltInv'
      BY <3>1 DEF PlannerInv, BuiltInv
    <3>3. Plan(DOMAIN graph')!ValidGraph(graph')
      BY <2>1, <3>1
    <3> QED
      BY <3>1, <3>2, <3>3, ClientRests DEF PlannerInv, TypeOK, PhaseInv
  <2>2. CASE ~ Plan(DOMAIN graph)!ValidGraph(graph)
    BY <1>8, <2>2, FallBackKeepsInv DEF Validate
  <2> QED
    BY <2>1, <2>2
<1>9. CASE Terminating \/ UNCHANGED vars
  <2>1. UNCHANGED clientVars /\ UNCHANGED plannerVars
    BY <1>9 DEF Terminating, vars
  <2> QED
    BY <2>1, ClientRests DEF plannerVars, PlannerInv, TypeOK, BuiltInv, PhaseInv
<1> QED
  BY <1>1, <1>2, <1>3, <1>4, AddKeepsInv, <1>5, <1>6, <1>7, <1>8, <1>9 DEF Next, Step

LEMMA PlannerInvariance == Spec => []PlannerInv
  BY PlannerInvInit, PlannerInvStep, PTL DEF Spec

\* Every variable of the planner and its client keeps its type.
THEOREM TypeCorrect == Spec => []TypeOK
<1>1. PlannerInv => TypeOK
  BY DEF PlannerInv
<1> QED
  BY PlannerInvariance, <1>1, PTL

\* complete() sleeps no longer than the longest wait for every request it has made,
\* whatever the server answers and whatever retry-after it sends.
THEOREM WaitsAreBounded == Spec => []WaitsBounded
<1>1. PlannerInv => WaitsBounded
  <2> SUFFICES ASSUME PlannerInv PROVE WaitsBounded
    OBVIOUS
  <2>1. /\ call \in {"request", "limited", "failed", "returned", "raised", "escaped"}
        /\ Len(replies) \in Nat /\ waited \in Nat
    BY DEF PlannerInv, ClientInv, ClientTypeOK
  <2>2. MaxWait \in Nat /\ Len(replies) * MaxWait \in Nat
    BY <2>1, OneMoreAttempt
  <2>3. CASE call \in {"limited", "failed"}
    <3>1. waited + MaxWait <= Len(replies) * MaxWait
      BY <2>3 DEF PlannerInv, ClientInv, TimeInv
    <3> QED
      BY <2>1, <2>2, <3>1 DEF WaitsBounded
  <2>4. CASE call \notin {"limited", "failed"}
    BY <2>1, <2>4 DEF PlannerInv, ClientInv, TimeInv, WaitsBounded
  <2> QED
    BY <2>3, <2>4
<1> QED
  BY PlannerInvariance, <1>1, PTL

\* complete() raises only after max_retries failures and names the last one.
THEOREM GivesUpOnlyThen == Spec => []GivesUpHonestly
<1>1. PlannerInv => GivesUpHonestly
  <2> SUFFICES ASSUME PlannerInv PROVE GivesUpHonestly
    OBVIOUS
  <2>1. /\ call \in {"request", "limited", "failed", "returned", "raised", "escaped"}
        /\ attempt \in 1..MaxRetries /\ MaxRetries \in Nat /\ Len(replies) \in Nat
    BY ClientAssumption DEF PlannerInv, ClientInv, ClientTypeOK
  <2>2. Len(replies) <= MaxRetries
    BY <2>1 DEF PlannerInv, ClientInv, TimeInv
  <2> QED
    BY <2>1, <2>2 DEF PlannerInv, ClientInv, TimeInv, ReplyInv, GivesUpHonestly
<1> QED
  BY PlannerInvariance, <1>1, PTL

\* Whatever the model answers, the graph that plan_dynamically hands to the
\* scheduler is a non-empty DAG of at most MaxTasks tasks, or the standard one,
\* and every task is for a role that has an agent.
THEOREM PlansAreRunnable == Spec => []PlanIsRunnable
<1>1. PlannerInv => PlanIsRunnable
  <2> SUFFICES ASSUME PlannerInv, phase \in {"accepted", "fallback"}
               PROVE  /\ DOMAIN graph # {}
                      /\ graph = StandardPlan \/ Cardinality(DOMAIN graph) <= MaxTasks
                      /\ Plan(DOMAIN graph)!ValidGraph(graph)
    BY DEF PlanIsRunnable, PlannerInv, TypeOK
  <2>1. CASE phase = "accepted"
    <3>1. /\ Cardinality(DOMAIN graph) = Len(answer.items) /\ IsFiniteSet(DOMAIN graph)
          /\ Len(answer.items) \in 1..MaxTasks /\ Plan(DOMAIN graph)!ValidGraph(graph)
      BY <2>1 DEF PlannerInv, BuiltInv, PhaseInv
    <3> QED
      BY <3>1, FS_EmptySet, PlannerAssumption
  <2>2. CASE phase = "fallback"
    BY <2>2, StandardIsValid DEF PlannerInv, PhaseInv
  <2> QED
    BY <2>1, <2>2
<1> QED
  BY PlannerInvariance, <1>1, PTL

\* An accepted plan has one task for every item of the answer, with its
\* dependencies and its role.
THEOREM PlansAreVerbatim == Spec => []AcceptedVerbatim
<1>1. PlannerInv => AcceptedVerbatim
  BY DEF PlannerInv, BuiltInv, AcceptedVerbatim
<1> QED
  BY PlannerInvariance, <1>1, PTL
=============================================================================
