----------------------------- MODULE MCScheduler -----------------------------
(***************************************************************************)
(* Scheduler on every DAG over four tasks, one labelling of each, and on   *)
(* graphs that validate() refuses.                                         *)
(***************************************************************************)
EXTENDS Scheduler

CONSTANTS t1, t2, t3, t4, ghost

\* Dependencies point to lower positions; the order of the dict is free anyway.
Dags == {g \in [Tasks -> SUBSET Tasks] : /\ g[t1] = {}
                                         /\ g[t2] \subseteq {t1}
                                         /\ g[t3] \subseteq {t1, t2}
                                         /\ g[t4] \subseteq {t1, t2, t3}}

\* Self-dependencies, cycles of two, and the unknown id ghost.
BadGraphs ==
  {g \in [Tasks -> SUBSET Names] : /\ g[t1] \subseteq {t1, t2, ghost}
                                   /\ g[t2] \subseteq {t1, t2, ghost}
                                   /\ g[t3] = {t1}
                                   /\ g[t4] = {}
                                   /\ ~ ValidGraph(g)}

MCGraphs == Dags \union BadGraphs
==============================================================================
