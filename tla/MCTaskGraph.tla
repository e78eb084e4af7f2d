----------------------------- MODULE MCTaskGraph -----------------------------
(***************************************************************************)
(* Every graph over three tasks, one unknown id included (and a task that  *)
(* stands alone), and every acyclic graph over four.                       *)
(***************************************************************************)
EXTENDS FailureCascade

CONSTANTS t1, t2, t3, t4, ghost

AnyGraph == {g \in Graph : g[t4] = {} /\ \A t \in Tasks : t4 \notin g[t]}

\* Acyclic graphs over four tasks, one labelling of each (dependencies point
\* to lower positions; every visiting order is explored anyway).
Dags == {g \in [Tasks -> SUBSET Tasks] :
           /\ g[t1] = {}
           /\ g[t2] \subseteq {t1}
           /\ g[t3] \subseteq {t1, t2}
           /\ g[t4] \subseteq {t1, t2, t3}}

MCGraphs == AnyGraph \union Dags
===============================================================================
