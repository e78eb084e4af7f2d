--------------------------- MODULE TaskGraphProofs ---------------------------
(***************************************************************************)
(* Lemmas about the operators of TaskGraph: what a least closed set is     *)
(* good for, what mark_failed does to a consistent graph, and why a graph  *)
(* with nothing to run is settled.                                         *)
(***************************************************************************)
EXTENDS TaskGraph, TLAPS

\* The downstream of t holds every dependent of t and of its own members.
LEMMA DownstreamStep ==
  ASSUME NEW deps, NEW t, NEW v \in Tasks,
         t \in deps[v] \/ deps[v] \cap Downstream(deps, t) # {}
  PROVE  v \in Downstream(deps, t)
  BY DEF Downstream

\* It is the least such set.
LEMMA DownstreamLeast ==
  ASSUME NEW deps, NEW t, NEW S \in SUBSET Tasks,
         \A v \in Tasks : t \in deps[v] \/ deps[v] \cap S # {} => v \in S
  PROVE  Downstream(deps, t) \subseteq S
  BY DEF Downstream

\* The cascade is a set of pending tasks, it is closed, and it is the least
\* closed set.
LEMMA CascadeClosure ==
  ASSUME NEW deps, NEW s
  PROVE  /\ Cascade(deps, s) \subseteq Pending(s)
         /\ CascadeClosed(deps, s, Cascade(deps, s))
  BY DEF Cascade, CascadeClosed, Pending

LEMMA CascadeLeast ==
  ASSUME NEW deps, NEW s, NEW C \in SUBSET Pending(s), CascadeClosed(deps, s, C)
  PROVE  Cascade(deps, s) \subseteq C
  BY DEF Cascade

\* What mark_failed does to each task.
LEMMA MarkFailedAt ==
  ASSUME NEW deps, NEW s \in [Tasks -> Statuses], NEW t \in Tasks
  PROVE  /\ MarkFailed(deps, s, t) \in [Tasks -> Statuses]
         /\ t \notin Fallout(deps, s, t)
         /\ MarkFailed(deps, s, t)[t] = "failed"
         /\ \A u \in Fallout(deps, s, t) :
              u \in Tasks /\ s[u] = "pending" /\ MarkFailed(deps, s, t)[u] = "blocked"
         /\ \A u \in Tasks :
              u \notin Fallout(deps, s, t) /\ u # t => MarkFailed(deps, s, t)[u] = s[u]
<1> DEFINE failed == [s EXCEPT ![t] = "failed"]
<1>1. \A u \in Tasks : failed[u] = IF u = t THEN "failed" ELSE s[u]
  OBVIOUS
<1>2. Fallout(deps, s, t) \subseteq Pending(failed)
  <2> HIDE DEF failed
  <2>1. Cascade(deps, failed) \subseteq Pending(failed)
    BY CascadeClosure
  <2> QED
    BY <2>1 DEF Fallout, failed
<1>3. \A u \in Fallout(deps, s, t) : u \in Tasks /\ u # t /\ s[u] = "pending"
  <2> HIDE DEF failed
  <2> QED
    BY <1>1, <1>2 DEF Pending
<1> QED
  BY <1>3 DEF MarkFailed, Statuses

------------------------------------------------------------------------------
(* Consistency is kept by every change of status the scheduler makes. *)

LEMMA StartKeepsConsistent ==
  ASSUME NEW deps \in [Tasks -> SUBSET Tasks], NEW s \in [Tasks -> Statuses],
         NEW t \in Tasks, Consistent(deps, s),
         s[t] = "pending", DepsDone(deps, s, t)
  PROVE  Consistent(deps, [s EXCEPT ![t] = "running"])
<1> DEFINE n == [s EXCEPT ![t] = "running"]
<1>1. n[t] = "running" /\ \A u \in Tasks : u # t => n[u] = s[u]
  OBVIOUS
<1>2. \A u, d \in Tasks : d \in deps[u] =>
        /\ s[d] = "done" => n[d] = "done"
        /\ n[d] \in {"failed", "blocked"} <=> s[d] \in {"failed", "blocked"}
  BY <1>1
<1> HIDE DEF n
<1>3. \A u \in Tasks : DepsDone(deps, s, u) => DepsDone(deps, n, u)
  BY <1>2 DEF DepsDone
<1>4. \A u \in Tasks : Doomed(deps, s, u) <=> Doomed(deps, n, u)
  BY <1>2 DEF Doomed
<1>5. Consistent(deps, n)
  BY <1>1, <1>3, <1>4 DEF Consistent
<1> QED
  BY <1>5 DEF n

\* Completion (o = "done") and retry (o = "pending") of a running task.
LEMMA SettleKeepsConsistent ==
  ASSUME NEW deps \in [Tasks -> SUBSET Tasks], NEW s \in [Tasks -> Statuses],
         NEW t \in Tasks, Consistent(deps, s),
         s[t] = "running", NEW o \in {"done", "pending"}
  PROVE  Consistent(deps, [s EXCEPT ![t] = o])
<1> DEFINE n == [s EXCEPT ![t] = o]
<1>1. n[t] = o /\ \A u \in Tasks : u # t => n[u] = s[u]
  OBVIOUS
<1>2. \A u, d \in Tasks : d \in deps[u] =>
        /\ s[d] = "done" => n[d] = "done"
        /\ n[d] \in {"failed", "blocked"} <=> s[d] \in {"failed", "blocked"}
  BY <1>1
<1> HIDE DEF n
<1>3. \A u \in Tasks : DepsDone(deps, s, u) => DepsDone(deps, n, u)
  BY <1>2 DEF DepsDone
<1>4. \A u \in Tasks : Doomed(deps, s, u) <=> Doomed(deps, n, u)
  BY <1>2 DEF Doomed
<1>5. DepsDone(deps, s, t) /\ ~ Doomed(deps, s, t)
  BY DEF Consistent, DepsDone, Doomed
<1>6. Consistent(deps, n)
  BY <1>1, <1>3, <1>4, <1>5 DEF Consistent
<1> QED
  BY <1>6 DEF n

LEMMA MarkFailedKeepsConsistent ==
  ASSUME NEW deps \in [Tasks -> SUBSET Tasks], NEW s \in [Tasks -> Statuses],
         NEW t \in Tasks, Consistent(deps, s), s[t] = "running"
  PROVE  Consistent(deps, MarkFailed(deps, s, t))
<1> DEFINE failed == [s EXCEPT ![t] = "failed"]
           C == Fallout(deps, s, t)
           n == MarkFailed(deps, s, t)
<1>1. /\ n \in [Tasks -> Statuses]
      /\ t \notin C
      /\ n[t] = "failed"
      /\ \A u \in C : u \in Tasks /\ s[u] = "pending" /\ n[u] = "blocked"
      /\ \A u \in Tasks : u \notin C /\ u # t => n[u] = s[u]
  BY MarkFailedAt
<1>2. /\ failed[t] = "failed"
      /\ \A u \in Tasks : u # t => failed[u] = s[u]
  OBVIOUS
<1> HIDE DEF failed
<1>3. CascadeClosed(deps, failed, C) /\ C \subseteq Pending(failed)
  BY CascadeClosure DEF Fallout, failed
<1>4. \A u \in Tasks : DepsDone(deps, s, u) => DepsDone(deps, n, u)
  <2> SUFFICES ASSUME NEW u \in Tasks, NEW d \in Tasks, s[d] = "done"
               PROVE  n[d] = "done"
    BY DEF DepsDone
  <2> QED
    BY <1>1
<1>5. \A u \in Tasks : Doomed(deps, failed, u) => Doomed(deps, n, u)
  <2> SUFFICES ASSUME NEW u \in Tasks, NEW d \in Tasks,
                      failed[d] \in {"failed", "blocked"}
               PROVE  n[d] \in {"failed", "blocked"}
    BY DEF Doomed
  <2> QED
    BY <1>1, <1>2
<1>6. \A u \in Tasks : n[u] = "pending" => ~ Doomed(deps, n, u)
  <2> SUFFICES ASSUME NEW u \in Tasks, n[u] = "pending",
                      NEW d \in Tasks, d \in deps[u], n[d] \in {"failed", "blocked"}
               PROVE  FALSE
    BY DEF Doomed
  <2>1. u \notin C /\ u \in Pending(failed)
    BY <1>1, <1>2 DEF Pending
  <2>2. CASE d \in C
    BY <2>1, <2>2, <1>3 DEF CascadeClosed
  <2>3. CASE d \notin C
    <3>1. failed[d] \in {"failed", "blocked"}
      BY <2>3, <1>1, <1>2
    <3> QED
      BY <3>1, <2>1, <1>3 DEF CascadeClosed, Doomed
  <2> QED
    BY <2>2, <2>3
<1>7. \A u \in C : Doomed(deps, n, u)
  <2> DEFINE D == {u \in C : Doomed(deps, n, u)}
  <2>1. D \subseteq Pending(failed)
    BY <1>3
  <2>2. CascadeClosed(deps, failed, D)
    <3> SUFFICES ASSUME NEW u \in Pending(failed),
                        Doomed(deps, failed, u) \/ deps[u] \cap D # {}
                 PROVE  u \in D
      BY DEF CascadeClosed
    <3>1. u \in Tasks
      BY DEF Pending
    <3>2. u \in C
      BY <1>3 DEF CascadeClosed
    <3>3. CASE Doomed(deps, failed, u)
      BY <3>1, <3>2, <3>3, <1>5
    <3>4. CASE deps[u] \cap D # {}
      BY <3>1, <3>2, <3>4, <1>1 DEF Doomed
    <3> QED
      BY <3>3, <3>4
  <2> HIDE DEF D
  <2>3. C \subseteq D
    BY <2>1, <2>2, CascadeLeast DEF Fallout, failed
  <2> QED
    BY <2>3 DEF D
<1>8. \A u \in Tasks : n[u] = "blocked" => Doomed(deps, n, u)
  <2> SUFFICES ASSUME NEW u \in Tasks, n[u] = "blocked", u \notin C
               PROVE  Doomed(deps, n, u)
    BY <1>7
  <2>1. s[u] = "blocked" /\ u # t
    BY <1>1
  <2>2. PICK d \in deps[u] : s[d] \in {"failed", "blocked"}
    BY <2>1 DEF Consistent, Doomed
  <2>3. d \in Tasks /\ n[d] \in {"failed", "blocked"}
    BY <2>2, <1>1
  <2> QED
    BY <2>2, <2>3 DEF Doomed
<1>9. \A u \in Tasks : n[u] \in {"running", "done", "failed"} => DepsDone(deps, n, u)
  <2> SUFFICES ASSUME NEW u \in Tasks, n[u] \in {"running", "done", "failed"}
               PROVE  DepsDone(deps, s, u)
    BY <1>4
  <2>1. s[u] \in {"running", "done", "failed"}
    BY <1>1
  <2> QED
    BY <2>1 DEF Consistent
<1>10. \A u \in Tasks : n[u] # "ready"
  BY <1>1 DEF Consistent
<1> HIDE DEF n
<1>11. Consistent(deps, n)
  BY <1>6, <1>8, <1>9, <1>10 DEF Consistent
<1> QED
  BY <1>11 DEF n
------------------------------------------------------------------------------
(* What consistency says about failures. *)

\* In a consistent graph everything downstream of a task that is not done is
\* pending or blocked.
LEMMA DownstreamNotStarted ==
  ASSUME NEW deps \in [Tasks -> SUBSET Tasks], NEW s \in [Tasks -> Statuses],
         NEW t \in Tasks, Consistent(deps, s), s[t] # "done"
  PROVE  \A u \in Downstream(deps, t) : u \in Tasks /\ s[u] \in {"pending", "blocked"}
<1> DEFINE S == {u \in Tasks : s[u] \in {"pending", "blocked"}}
<1>1. \A v \in Tasks : t \in deps[v] \/ deps[v] \cap S # {} => v \in S
  <2> SUFFICES ASSUME NEW v \in Tasks, NEW d \in deps[v], s[d] # "done"
               PROVE  v \in S
    OBVIOUS
  <2>1. ~ DepsDone(deps, s, v)
    BY DEF DepsDone
  <2> QED
    BY <2>1 DEF Consistent, Statuses
<1> HIDE DEF S
<1>2. S \subseteq Tasks
  BY DEF S
<1>3. Downstream(deps, t) \subseteq S
  BY <1>1, <1>2, DownstreamLeast
<1> QED
  BY <1>3 DEF S

\* In a consistent acyclic graph the blocked tasks are exactly those
\* downstream of a failed one.
LEMMA BlockedIsDownstream ==
  ASSUME NEW deps \in [Tasks -> SUBSET Tasks], NEW s \in [Tasks -> Statuses],
         Consistent(deps, s), Acyclic(deps), NEW t \in Tasks
  PROVE  s[t] = "blocked" <=>
           \E f \in Tasks : s[f] = "failed" /\ t \in Downstream(deps, f)
<1>1. ASSUME NEW f \in Tasks, s[f] = "failed", t \in Downstream(deps, f)
      PROVE  s[t] = "blocked"
  <2> DEFINE S == {u \in Tasks : s[u] = "blocked"}
  <2>1. \A v \in Tasks : f \in deps[v] \/ deps[v] \cap S # {} => v \in S
    <3> SUFFICES ASSUME NEW v \in Tasks, NEW d \in deps[v],
                        s[d] \in {"failed", "blocked"}
                 PROVE  v \in S
      BY <1>1
    <3>1. Doomed(deps, s, v) /\ ~ DepsDone(deps, s, v)
      BY DEF Doomed, DepsDone
    <3> QED
      BY <3>1 DEF Consistent, Statuses
  <2> HIDE DEF S
  <2>2. S \subseteq Tasks
    BY DEF S
  <2>3. Downstream(deps, f) \subseteq S
    BY <2>1, <2>2, DownstreamLeast
  <2> QED
    BY <1>1, <2>3 DEF S
<1>2. ASSUME s[t] = "blocked"
      PROVE  \E f \in Tasks : s[f] = "failed" /\ t \in Downstream(deps, f)
  <2> DEFINE X == {u \in Tasks : /\ s[u] = "blocked"
                                 /\ ~ \E f \in Tasks :
                                        s[f] = "failed" /\ u \in Downstream(deps, f)}
  <2>1. SUFFICES ASSUME X # {} PROVE FALSE
    BY <1>2
  <2>2. PICK u \in X : deps[u] \cap X = {}
    <3> HIDE DEF X
    <3>1. X \in SUBSET Tasks
      BY DEF X
    <3> QED
      BY <2>1, <3>1 DEF Acyclic
  <2>3. PICK d \in deps[u] : s[d] \in {"failed", "blocked"}
    BY <2>2 DEF Consistent, Doomed
  <2>4. u \in Tasks /\ d \in Tasks
    BY <2>2, <2>3
  <2>5. CASE s[d] = "failed"
    <3>1. u \in Downstream(deps, d)
      BY <2>3, <2>4, DownstreamStep
    <3> QED
      BY <3>1, <2>2, <2>4, <2>5
  <2>6. CASE s[d] = "blocked"
    <3>1. d \notin X
      BY <2>2, <2>3
    <3>2. PICK f \in Tasks : s[f] = "failed" /\ d \in Downstream(deps, f)
      BY <3>1, <2>4, <2>6
    <3>3. u \in Downstream(deps, f)
      BY <3>2, <2>3, <2>4, DownstreamStep
    <3> QED
      BY <3>2, <3>3, <2>2
  <2> QED
    BY <2>3, <2>5, <2>6
<1> QED
  BY <1>1, <1>2

\* mark_failed turns BLOCKED exactly the tasks downstream of the one that
\* failed: what the loop finds by looking at statuses is reachability.
LEMMA MarkFailedIsDownstream ==
  ASSUME NEW deps \in [Tasks -> SUBSET Tasks], NEW s \in [Tasks -> Statuses],
         NEW t \in Tasks, Consistent(deps, s), s[t] = "running"
  PROVE  MarkFailed(deps, s, t) =
           [u \in Tasks |-> IF u = t THEN "failed"
                            ELSE IF u \in Downstream(deps, t) THEN "blocked"
                            ELSE s[u]]
<1> DEFINE failed == [s EXCEPT ![t] = "failed"]
           C == Fallout(deps, s, t)
           B == {u \in Tasks : s[u] = "blocked"}
           D == {u \in Downstream(deps, t) : s[u] = "pending"}
<1>1. /\ failed[t] = "failed"
      /\ \A u \in Tasks : u # t => failed[u] = s[u]
  OBVIOUS
<1> HIDE DEF failed
<1>2. CascadeClosed(deps, failed, C) /\ C \subseteq Pending(failed)
  BY CascadeClosure DEF Fallout, failed
<1>3. \A u \in Downstream(deps, t) : u \in Tasks /\ s[u] \in {"pending", "blocked"}
  BY DownstreamNotStarted
<1>4. C \subseteq D
  <2>1. D \subseteq Pending(failed)
    BY <1>1, <1>3 DEF Pending
  <2>2. CascadeClosed(deps, failed, D)
    <3> SUFFICES ASSUME NEW u \in Tasks, failed[u] = "pending",
                        Doomed(deps, failed, u) \/ deps[u] \cap D # {}
                 PROVE  u \in D
      BY DEF CascadeClosed, Pending
    <3>1. u # t /\ s[u] = "pending"
      BY <1>1
    <3>2. ~ Doomed(deps, s, u)
      BY <3>1 DEF Consistent
    <3>3. t \in deps[u] \/ deps[u] \cap Downstream(deps, t) # {}
      BY <3>2, <1>1 DEF Doomed
    <3>4. u \in Downstream(deps, t)
      BY <3>3, DownstreamStep
    <3> QED
      BY <3>1, <3>4
  <2> HIDE DEF D
  <2> QED
    BY <2>1, <2>2, CascadeLeast DEF Fallout, failed
<1>5. Downstream(deps, t) \subseteq B \union C
  <2> DEFINE S == B \union C
  <2>1. S \subseteq Tasks
    BY <1>2 DEF Pending
  <2>2. \A v \in Tasks : t \in deps[v] \/ deps[v] \cap S # {} => v \in S
    <3> SUFFICES ASSUME NEW v \in Tasks, NEW d \in deps[v], d = t \/ d \in S
                 PROVE  v \in S
      OBVIOUS
    <3>1. d \in Tasks /\ s[d] \in {"running", "pending", "blocked"}
      BY <1>1, <1>2 DEF Pending
    <3>2. ~ DepsDone(deps, s, v)
      BY <3>1 DEF DepsDone
    <3>3. s[v] \in {"pending", "blocked"}
      BY <3>2 DEF Consistent, Statuses
    <3>4. CASE s[v] = "blocked"
      BY <3>4
    <3>5. CASE s[v] = "pending"
      <4>1. v \in Pending(failed)
        BY <3>5, <1>1 DEF Pending
      <4>2. ~ Doomed(deps, s, v)
        BY <3>5 DEF Consistent
      <4>3. d \notin B
        BY <4>2, <3>1 DEF Doomed
      <4>4. Doomed(deps, failed, v) \/ deps[v] \cap C # {}
        BY <4>3, <1>1 DEF Doomed
      <4> QED
        BY <4>1, <4>4, <1>2 DEF CascadeClosed
    <3> QED
      BY <3>3, <3>4, <3>5
  <2> HIDE DEF S
  <2>3. Downstream(deps, t) \subseteq S
    BY <2>1, <2>2, DownstreamLeast
  <2> QED
    BY <2>3 DEF S
<1> HIDE DEF C
<1>6. MarkFailed(deps, s, t) =
        [u \in Tasks |-> IF u = t THEN "failed" ELSE IF u \in C THEN "blocked" ELSE s[u]]
  BY DEF MarkFailed, C
<1> QED
  BY <1>4, <1>5, <1>6

\* Where nothing runs and nothing is ready, everything has an outcome.  This
\* is where acyclicity matters: a cycle of pending tasks would never be ready.
LEMMA IdleIsSettled ==
  ASSUME NEW deps \in [Tasks -> SUBSET Tasks], NEW s \in [Tasks -> Statuses],
         Consistent(deps, s), Acyclic(deps),
         \A t \in Tasks : s[t] # "running", Ready(deps, s) = {}
  PROVE  \A t \in Tasks : Settled(s, t)
<1> DEFINE P == {t \in Tasks : s[t] = "pending"}
<1>1. SUFFICES P = {}
  BY DEF Consistent, Settled, Statuses
<1>2. SUFFICES ASSUME P # {} PROVE FALSE
  OBVIOUS
<1>3. PICK t \in P : deps[t] \cap P = {}
  <2> HIDE DEF P
  <2>1. P \in SUBSET Tasks
    BY DEF P
  <2> QED
    BY <1>2, <2>1 DEF Acyclic
<1>4. ~ Doomed(deps, s, t)
  BY <1>3 DEF Consistent
<1>5. \A d \in deps[t] : d \in Tasks /\ s[d] = "done"
  BY <1>3, <1>4 DEF Consistent, Doomed, Statuses
<1>6. t \in Ready(deps, s)
  BY <1>3, <1>5 DEF Ready, DepsDone
<1> QED
  BY <1>6
==============================================================================
